---- MODULE Spec2Model ----
(***************************************************************************)
(* Record state machine, process preconditions and the dedupe candidate    *)
(* queue of colrev (colrev_core/process.py, colrev_core/review_manager.py, *)
(* colrev_core/pdf_get_man.py, colrev/ops/prep.py,                          *)
(* colrev/ops/built_in/pdf_prep_man/pdf_prep_man_cli.py,                    *)
(* analysis/merge_duplicates.py).                                           *)
(***************************************************************************)
EXTENDS Integers, Sequences, FiniteSets, TLC

VARIABLES
    status,                 \* record -> RecordState (the record's status field)
    passed,                 \* record -> states preceding a state it has been in
    resets,                 \* kinds of status-lowering operations run so far
    raised,                 \* exception raised by the last operation, or "none"
    lastOp,                 \* last record operation: a trigger or a status setter
    proc,                   \* the Process object under construction / built
    force_mode,             \* REVIEW_MANAGER.force_mode
    review_type,            \* settings.project.review_type
    delay_automated_processing, \* settings.project.delay_automated_processing
    repo,                   \* git repository: files with unstaged / staged changes
    notified_next_process,  \* REVIEW_MANAGER.notified_next_process
    violating,              \* states listed by the last ProcessOrderViolation
    pm_state,               \* ProcessModel.state of the ProcessModel object
    preceding,              \* result of the last get_preceding_states call
    valid,                  \* result of the last get_valid_transitions call
    references,             \* merge_duplicates: row index -> record
    bibfiles,               \* search file -> hashes of the entries it holds
    SimilarityArray,        \* <<row, column>> -> similarity (x 100000), 0 or -1
    filled,                 \* the array as calculate_similarities filled it
    tuples_to_process,      \* the candidate queue
    dpc,                    \* position of merge_bib
    propagated,             \* the citation keys utils reports as propagated
    mi,                     \* auto_merge_entries: index of the next pair
    tuples_for_merging,     \* the rows written to tuples_for_merging.csv
    compared,               \* get_similarity of two records, in both orders
    merge_call,             \* a call of Record.merge: arguments and result
    records,                \* the dataset: ID -> record (origin, status)
    history,                \* the records file of every load commit
    search,                 \* the origins of the entries of the search files
    ds_op,                  \* last operation on the dataset
    bibfile,                \* run_fix_bib_file: the keys of the file's entries
    record_ids,             \* run_fix_bib_file: record_ids
    fpos,                   \* run_fix_bib_file: the entry line being read
    bib_database,           \* gather: the entries of references.bib
    qc_record,              \* the record handed to the quality checkers
    qc_index,               \* what the local index says about the record
    qc_last,                \* the last checker run and the notes it left
    qc_changes,             \* number of changes made to the record's fields
    pv_map,                 \* a provenance map, its entries in insertion order
    pv_text,                \* the provenance field as written to the file
    pv_header,              \* the map the header reader loads from the text
    pv_list,                \* the map load_records_list loads from the text
    prep_round,             \* the prep round: last_round, endpoints' behaviour
    prep_workers,           \* item ID -> the prepare call for the item
    PREP_COUNTER,           \* the shared progress counter
    prep_stats,             \* Prep.__stats: endpoint -> number of timings
    prep_main,              \* Prep.main: position and the records it saved
    loop_min_similarity,    \* calculate_similarities: its min_similarity
    rs_records,             \* reset_records: the records, ID -> record
    rs_commits,             \* reset_records: the commits of the records file
    rs_call,                \* reset_records: the reset_ids of the last call
    man_records,            \* pdf_prep_man: its variable records
    man_saved,              \* pdf_prep_man: what save_records_dict wrote last
    man_items,              \* pdf_prep_man: the IDs of the items
    man_i,                  \* pdf_prep_man: number of items gone through
    man_pc,                 \* pdf_prep_man: position
    man_files               \* pdf_prep_man: ID -> the PDF is on disk

smVars == <<status, passed, resets>>
preVars == <<proc, force_mode, review_type, delay_automated_processing, repo,
             notified_next_process, violating>>
pmVars == <<pm_state, preceding, valid>>
amVars == <<propagated, mi, tuples_for_merging, compared>>
dsVars == <<merge_call, records, history, search, ds_op>>
idVars == <<bibfile, record_ids, fpos, bib_database>>
qcVars == <<qc_record, qc_index, qc_last, qc_changes>>
pvVars == <<pv_map, pv_text, pv_header, pv_list>>
ppVars == <<prep_round, prep_workers, PREP_COUNTER, prep_stats, prep_main>>
lpVars == <<loop_min_similarity>>
rsVars == <<rs_records, rs_commits, rs_call>>
mpVars == <<man_records, man_saved, man_items, man_i, man_pc, man_files>>
xVars == <<qcVars, pvVars, ppVars, lpVars, rsVars, mpVars>>
ddVars == <<references, bibfiles, SimilarityArray, filled, tuples_to_process,
            dpc, amVars, dsVars, idVars, xVars>>
vars == <<status, passed, resets, raised, lastOp, proc, force_mode,
          review_type, delay_automated_processing, repo,
          notified_next_process, violating, pm_state, preceding, valid,
          references, bibfiles, SimilarityArray, filled, tuples_to_process,
          dpc, propagated, mi, tuples_for_merging, compared, merge_call,
          records, history, search, ds_op, bibfile, record_ids, fpos,
          bib_database, qc_record, qc_index, qc_last, qc_changes, pv_map,
          pv_text, pv_header, pv_list, prep_round, prep_workers,
          PREP_COUNTER, prep_stats, prep_main, loop_min_similarity,
          rs_records, rs_commits, rs_call, man_records, man_saved,
          man_items, man_i, man_pc, man_files>>

(***************************************************************************)
(* Bounds                                                                  *)
(***************************************************************************)
NumRecords == 1
\* number of records of the bibliography handed to merge_bib
NumRefs == 4
Records == 1..NumRecords
\* largest dataset the precondition checks are run on
MaxDataset == 2

(***************************************************************************)
(* colrev_core/process.py: ProcessType, the transition tables              *)
(***************************************************************************)
ProcessingTypes ==
    {"load", "prep", "prep_man", "dedupe", "prescreen", "pdf_get",
     "pdf_get_man", "pdf_prep", "pdf_prep_man", "screen", "data"}

NonProcessingTypes == {"format", "explore", "check"}

ProcessType == ProcessingTypes \cup NonProcessingTypes

T(t, s, d) == [trigger |-> t, source |-> s, dest |-> d]

\* ProcessModel.transitions, in declaration order
transitions ==
    << T("load", "md_retrieved", "md_imported"),
       T("prep", "md_imported", "md_needs_manual_preparation"),
       T("prep", "md_imported", "md_prepared"),
       T("prep_man", "md_needs_manual_preparation", "md_prepared"),
       T("dedupe", "md_prepared", "md_processed"),
       T("prescreen", "md_processed", "rev_prescreen_excluded"),
       T("prescreen", "md_processed", "rev_prescreen_included"),
       T("pdf_get", "rev_prescreen_included", "pdf_imported"),
       T("pdf_get", "rev_prescreen_included", "pdf_needs_manual_retrieval"),
       T("pdf_get_man", "pdf_needs_manual_retrieval", "pdf_not_available"),
       T("pdf_get_man", "pdf_needs_manual_retrieval", "pdf_imported"),
       T("pdf_prep", "pdf_imported", "pdf_needs_manual_preparation"),
       T("pdf_prep", "pdf_imported", "pdf_prepared"),
       T("pdf_prep_man", "pdf_needs_manual_preparation", "pdf_prepared"),
       T("screen", "pdf_prepared", "rev_excluded"),
       T("screen", "pdf_prepared", "rev_included"),
       T("data", "rev_included", "rev_synthesized") >>

TransitionSet == {transitions[i] : i \in 1..Len(transitions)}

\* the members of RecordState: the states the transition table names
RecordState ==
    {e.source : e \in TransitionSet} \cup {e.dest : e \in TransitionSet}

\* a faulty variant of the self-loop table: built over the source states of the
\* processing transitions only, so states without a successor get no loops
transitions_non_processing_sources_only ==
    {T(t, s, s) : t \in NonProcessingTypes,
                  s \in {e.source : e \in TransitionSet}}

\* non_processing_transitions, flattened: format, explore, check at every state
transitions_non_processing ==
    {T(t, s, s) : t \in NonProcessingTypes, s \in RecordState}

\* the transitions handed to the Machine
MachineTransitions == TransitionSet \cup transitions_non_processing

\* a faulty variant of the Machine's lookup: the trigger's name alone selects the edge
TriggerDestsAnySource(t, s) ==
    {e.dest : e \in {x \in MachineTransitions : x.trigger = t}}

\* the destinations the Machine has for trigger t in state s
TriggerDests(t, s) ==
    {e.dest : e \in {x \in MachineTransitions :
                        x.trigger = t /\ x.source = s}}

\* a faulty variant of get_valid_transitions: the edges are looked up by destination
get_valid_transitions_by_dest(s) ==
    {e.trigger : e \in {x \in TransitionSet : x.dest = s}}

\* ProcessModel.get_valid_transitions
get_valid_transitions(s) ==
    {e.trigger : e \in {x \in TransitionSet : x.source = s}}

(***************************************************************************)
(* ProcessModel.get_preceding_states: passes over the transition list,     *)
(* in order, until a pass adds nothing                                     *)
(***************************************************************************)
RECURSIVE PrecPass(_, _, _)
PrecPass(state, S, i) ==
    IF i > Len(transitions) THEN S
    ELSE LET e == transitions[i]
         IN  PrecPass(state,
                      IF e.dest \in S \/ state = e.dest
                      THEN S \cup {e.source} ELSE S,
                      i + 1)

RECURSIVE PrecLoop(_, _)
PrecLoop(state, S) ==
    LET S2 == PrecPass(state, S, 1)
    IN  IF Cardinality(S2) = Cardinality(S) THEN S2 ELSE PrecLoop(state, S2)

\* a faulty variant: a single pass over the list, no closure
get_preceding_states_single_pass(state) == PrecPass(state, {}, 1)

RECURSIVE SuccLoop(_, _)
SuccLoop(state, S) ==
    LET S2 == S \cup {e.dest : e \in {x \in TransitionSet :
                                        x.source \in S \/ x.source = state}}
    IN  IF S2 = S THEN S ELSE SuccLoop(state, S2)

\* a faulty variant: source and dest exchanged, the states that follow
get_succeeding_states(state) == SuccLoop(state, {})

get_preceding_states(state) == PrecLoop(state, {})

\* get_preceding_states, tabulated for every state
PrecedingStates == [s \in RecordState |-> get_preceding_states(s)]

(***************************************************************************)
(* Record lifecycle                                                        *)
(***************************************************************************)
\* the record's status becomes d
SetStatus(r, d) ==
    /\ status' = [status EXCEPT ![r] = d]
    /\ passed' = [passed EXCEPT ![r] = @ \cup PrecedingStates[d]]

\* the Machine's table: for every trigger and state, the destinations
MachineTable ==
    [t \in ProcessType |-> [s \in RecordState |-> TriggerDests(t, s)]]

\* A trigger of the Machine built in ProcessModel.__init__ from
\* transitions + transitions_non_processing, fired for record r.  A trigger
\* with no edge from the current state is refused and the state is kept;
\* otherwise the state becomes a destination declared for (trigger, source).
Fire(r, t) ==
    /\ lastOp' = IF t \in NonProcessingTypes THEN "non_processing"
                 ELSE "processing"
    /\ IF MachineTable[t][status[r]] = {}
       THEN /\ raised' = "StatusTransitionError"
            /\ UNCHANGED <<status, passed>>
       ELSE /\ raised' = "none"
            /\ \E d \in MachineTable[t][status[r]] : SetStatus(r, d)
    /\ UNCHANGED <<resets, preVars, pmVars, ddVars>>

\* a faulty variant of set_data: a record without a file is put back into
\* the retrieval queue
set_data_status_requeue(hasFile) ==
    IF hasFile THEN "pdf_imported" ELSE "rev_prescreen_included"

\* set_data: the status recorded with and without a file path
set_data_status(hasFile) ==
    IF hasFile THEN "pdf_imported" ELSE "pdf_not_available"

\* pdf_get_man.get_data / set_data: the items are the records in
\* pdf_needs_manual_retrieval; without a file the record becomes
\* pdf_not_available, with a file pdf_imported
PdfGetManSetData(r, hasFile) ==
    /\ status[r] = "pdf_needs_manual_retrieval"
    /\ lastOp' = "set_status"
    /\ SetStatus(r, set_data_status(hasFile))
    /\ raised' = "none"
    /\ UNCHANGED <<resets, preVars, pmVars, ddVars>>

ManPdfPrepDecisions == {"Yes", "No (delete)", "Quit"}

\* CoLRevCLIPDFManPrep.__man_pdf_prep_item_init / __man_pdf_prep_item:
\* a record not in pdf_needs_manual_preparation, or whose file is missing,
\* is left alone; "Yes" sets it prepared, "No (delete)" sends it back to
\* pdf_needs_manual_retrieval, "Quit" raises QuitPressedException
ManPdfPrepItem(r, fileExists, decision) ==
    /\ lastOp' = "set_status"
    /\ IF status[r] # "pdf_needs_manual_preparation" \/ ~fileExists
       THEN /\ raised' = "none"
            /\ UNCHANGED <<status, passed>>
       ELSE CASE decision = "Yes" ->
                    /\ SetStatus(r, "pdf_prepared")
                    /\ raised' = "none"
              [] decision = "No (delete)" ->
                    /\ SetStatus(r, "pdf_needs_manual_retrieval")
                    /\ raised' = "none"
              [] OTHER ->
                    /\ raised' = "QuitPressedException"
                    /\ UNCHANGED <<status, passed>>
    /\ resets' = IF /\ status[r] = "pdf_needs_manual_preparation"
                    /\ fileExists
                    /\ decision = "No (delete)"
                 THEN resets \cup {"pdf_prep_man_delete"} ELSE resets
    /\ UNCHANGED <<preVars, pmVars, ddVars>>

\* Record.prescreen_exclude: from any state to rev_prescreen_excluded
PrescreenExclude(r) ==
    /\ lastOp' = "set_status"
    /\ SetStatus(r, "rev_prescreen_excluded")
    /\ raised' = "none"
    /\ UNCHANGED <<resets, preVars, pmVars, ddVars>>

\* Record.change_entrytype, a manual correction: a prepared record whose
\* new entry type lacks required fields needs manual preparation again
ChangeEntrytype(r, complete) ==
    /\ status[r] = "md_prepared"
    /\ lastOp' = "set_status"
    /\ IF complete
       THEN UNCHANGED <<status, passed>>
       ELSE SetStatus(r, "md_needs_manual_preparation")
    /\ resets' = resets \cup {"change_entrytype"}
    /\ raised' = "none"
    /\ UNCHANGED <<preVars, pmVars, ddVars>>

ResetStates == {"md_prepared", "md_needs_manual_preparation"}

\* Prep.reset_records / __reset: the requested records that are md_prepared
\* or md_needs_manual_preparation end in md_needs_manual_preparation
ResetRecords(ids) ==
    /\ lastOp' = "set_status"
    /\ LET sel == {r \in ids : status[r] \in ResetStates}
       IN  /\ status' = [r \in Records |->
                           IF r \in sel THEN "md_needs_manual_preparation"
                           ELSE status[r]]
           /\ passed' = [r \in Records |->
                           IF r \in sel
                           THEN passed[r] \cup
                                PrecedingStates["md_needs_manual_preparation"]
                           ELSE passed[r]]
    /\ resets' = resets \cup {"reset_records"}
    /\ raised' = "none"
    /\ UNCHANGED <<preVars, pmVars, ddVars>>

NoProc == [type |-> "none", nst |-> FALSE]
CleanRepo == [unstaged |-> {}, staged |-> {}]

InitPre ==
    /\ proc = NoProc
    /\ force_mode = FALSE
    /\ review_type = "literature_review"
    /\ delay_automated_processing = "False"
    /\ repo = CleanRepo
    /\ notified_next_process = "none"
    /\ violating = {}

InitPM ==
    /\ pm_state = "none"
    /\ preceding = [state |-> "none", result |-> {}]
    /\ valid = [state |-> "none", result |-> {}]

\* no dedupe run
\* no Record.merge call, an empty dataset, no file under repair
InitDS ==
    /\ merge_call = [done |-> FALSE, self |-> <<>>, merging |-> <<>>,
                     result |-> <<>>]
    /\ records = <<>>
    /\ history = <<>>
    /\ search = {}
    /\ ds_op = "none"
    /\ bibfile = <<>>
    /\ record_ids = <<>>
    /\ fpos = 0
    /\ bib_database = <<>>

\* no record under quality check
InitQC ==
    /\ qc_record = <<>>
    /\ qc_index = "none"
    /\ qc_last = [checker |-> "none", notes |-> <<>>, n |-> 0,
                 twice |-> FALSE]
    /\ qc_changes = 0

\* no provenance map under way
InitPV ==
    /\ pv_map = <<>>
    /\ pv_text = [done |-> FALSE, text |-> <<>>]
    /\ pv_header = [done |-> FALSE, raised |-> "none", dict |-> <<>>]
    /\ pv_list = [done |-> FALSE, dict |-> <<>>]

\* no prep round under way
InitPP ==
    /\ prep_round = <<>>
    /\ prep_workers = <<>>
    /\ PREP_COUNTER = 0
    /\ prep_stats = <<>>
    /\ prep_main = [pc |-> "none", saved |-> <<>>]

\* no call of calculate_similarities under way
InitLP == loop_min_similarity = 0

\* no call of reset_records made
InitRS ==
    /\ rs_records = <<>>
    /\ rs_commits = <<>>
    /\ rs_call = [n |-> 0, reset_ids |-> <<>>]

\* no manual PDF preparation under way
InitMP ==
    /\ man_records = <<>>
    /\ man_saved = <<>>
    /\ man_items = <<>>
    /\ man_i = 0
    /\ man_pc = "none"
    /\ man_files = <<>>

InitX == InitQC /\ InitPV /\ InitPP /\ InitLP /\ InitRS /\ InitMP

InitDD ==
    /\ InitDS
    /\ references = <<>>
    /\ bibfiles = <<>>
    /\ SimilarityArray = <<>>
    /\ filled = <<>>
    /\ tuples_to_process = <<>>
    /\ dpc = "idle"
    /\ propagated = {}
    /\ mi = 0
    /\ tuples_for_merging = <<>>
    /\ compared = [done |-> FALSE, a |-> 0, b |-> 0, ab |-> 0, ba |-> 0]

\* every record starts as a retrieved search result
Init ==
    /\ status = [r \in Records |-> "md_retrieved"]
    /\ passed = [r \in Records |-> PrecedingStates["md_retrieved"]]
    /\ resets = {}
    /\ raised = "none"
    /\ lastOp = "none"
    /\ InitPre
    /\ InitPM
    /\ InitDD
    /\ InitX

Next ==
    \/ \E r \in Records, t \in ProcessType : Fire(r, t)
    \/ \E r \in Records, f \in BOOLEAN : PdfGetManSetData(r, f)
    \/ \E r \in Records, f \in BOOLEAN, d \in ManPdfPrepDecisions :
          ManPdfPrepItem(r, f, d)
    \/ \E r \in Records : PrescreenExclude(r)
    \/ \E r \in Records, c \in BOOLEAN : ChangeEntrytype(r, c)
    \/ \E ids \in SUBSET Records : ResetRecords(ids)

Spec == Init /\ [][Next]_vars

(***************************************************************************)
(* Properties of the record lifecycle (specification Spec)                 *)
(***************************************************************************)
\* the step is trigger t fired on record r: what Fire(r, t) does to the
\* record states and the exception
FiredAs(r, t) ==
    /\ lastOp' = IF t \in NonProcessingTypes THEN "non_processing"
                 ELSE "processing"
    /\ \A q \in Records \ {r} : status'[q] = status[q]
    /\ IF MachineTable[t][status[r]] = {}
       THEN raised' = "StatusTransitionError" /\ status' = status
       ELSE raised' = "none" /\ status'[r] \in MachineTable[t][status[r]]

NeverBehind(r) == status[r] \notin passed[r]

\* the operations the lifecycle description names as explicit resets
ExplicitResets == {"reset_records", "change_entrytype"}

TerminalStatesNamed ==
    {"rev_prescreen_excluded", "rev_excluded", "rev_synthesized"}

\* C7 as stated: the states without a valid outgoing processing transition
\* are exactly rev_prescreen_excluded, rev_excluded and rev_synthesized.
C7_Original ==
    \A r \in Records :
       (get_valid_transitions(status[r]) = {})
          <=> (status[r] \in TerminalStatesNamed)

\* C7: among the states a record reaches, those without a valid outgoing
\* processing transition are exactly rev_prescreen_excluded, rev_excluded,
\* rev_synthesized and pdf_not_available.
C7_TerminalStates ==
    \A r \in Records :
       (get_valid_transitions(status[r]) = {})
          <=> (status[r] \in TerminalStatesNamed \cup {"pdf_not_available"})

\* the manual retrieval recorded that no PDF is available
C7_Witness ==
    /\ lastOp = "set_status"
    /\ "pdf_needs_manual_retrieval" \in passed[1]
    /\ status[1] = "pdf_not_available"

\* C8: format, explore and check are accepted in every state a record is
\* in and leave every record's state as it was.
C8_NonProcessingSelfLoops ==
    [][\A r \in Records, t \in NonProcessingTypes :
          FiredAs(r, t) => (raised' = "none" /\ status' = status)]_vars

\* a non-processing trigger was accepted on a record in a terminal state
C8_Witness ==
    /\ lastOp = "non_processing"
    /\ raised = "none"
    /\ status[1] = "rev_excluded"

(***************************************************************************)
(* Process.check_precondition and ReviewManager.notify                     *)
(***************************************************************************)
\* REVIEW_DATASET.get_states_set: the states of the records of the dataset
get_states_set == {status[r] : r \in DOMAIN status}

\* ProcessModel.__init__(process=p): start_states[0], the source of the
\* first transition of the list whose trigger is p
StartState(p) ==
    LET i == CHOOSE k \in 1..Len(transitions) :
                 /\ transitions[k].trigger = p
                 /\ \A j \in 1..(k - 1) : transitions[j].trigger # p
    IN  transitions[i].source

NoError == [err |-> "none", violating |-> {}]

\* a faulty variant of check_process_precondition: the states required to be
\* absent are those that follow the process's source state
check_process_precondition_following(p) ==
    IF delay_automated_processing = "True"
    THEN LET cur_state_list == get_states_set
             required_absent == get_succeeding_states(StartState(p))
             intersection == cur_state_list \cap required_absent
         IN  IF cur_state_list = {} /\ p # "load"
             THEN [err |-> "NoRecordsError", violating |-> {}]
             ELSE IF intersection # {}
                  THEN [err |-> "ProcessOrderViolation",
                        violating |-> intersection]
                  ELSE NoError
    ELSE NoError

\* ProcessModel.check_process_precondition, for ProcessModel(process=p)
check_process_precondition(p) ==
    IF delay_automated_processing = "True"
    THEN LET cur_state_list == get_states_set
             required_absent == get_preceding_states(StartState(p))
             intersection == cur_state_list \cap required_absent
         IN  IF cur_state_list = {} /\ p # "load"
             THEN [err |-> "NoRecordsError", violating |-> {}]
             ELSE IF intersection # {}
                  THEN [err |-> "ProcessOrderViolation",
                        violating |-> intersection]
                  ELSE NoError
    ELSE NoError

\* the ignore_pattern each process type passes to require_clean_repo_general
\* (no pattern: the empty set)
IgnorePattern(p) ==
    CASE p = "load" -> {"search", "settings"}
      [] p \in {"prep_man", "prescreen"} -> {"references"}
      [] p \in {"pdf_get", "pdf_get_man"} -> {"pdfs"}
      [] p = "data" -> {"paper", "data"}
      [] OTHER -> {}

\* require_clean_repo_general, first part: with nothing staged, unstaged
\* changes of the references and the paper are added to the index
RepoAfterStaging(rp) ==
    IF rp.staged = {}
    THEN [unstaged |-> rp.unstaged \ {"references", "paper"},
          staged |-> rp.unstaged \cap {"references", "paper"}]
    ELSE rp

\* require_clean_repo_general, second part: unstaged changes are refused;
\* staged changes are refused unless ignored (the status file never counts)
RequireCleanError(rp, ignore) ==
    IF rp.unstaged # {} THEN "UnstagedGitChangesError"
    ELSE IF (rp.staged \ ignore) \ {"status"} # {}
         THEN "CleanRepoRequiredError"
         ELSE "none"

\* the process types whose branch of check_precondition runs the two checks
RunsChecks(p, nst) ==
    /\ p \in ProcessingTypes \ {"pdf_prep_man"}
    /\ (p = "prep" => nst)

\* Process.check_precondition for a process of type p whose
\* notify_state_transition_process is nst: the repository afterwards, the
\* exception raised (or "none") and the states it lists
CheckPrecondition(p, nst) ==
    IF force_mode \/ review_type = "realtime" \/ ~RunsChecks(p, nst)
    THEN [repo |-> repo, err |-> "none", violating |-> {}]
    ELSE LET rp == RepoAfterStaging(repo)
             e == RequireCleanError(rp, IgnorePattern(p))
             m == check_process_precondition(p)
         IN  IF e # "none"
             THEN [repo |-> rp, err |-> e, violating |-> {}]
             ELSE [repo |-> rp, err |-> m.err, violating |-> m.violating]

\* a faulty variant of notify: the process is recorded before it is checked
notify_assign_first(p, nst, state_transition) ==
    LET c == IF state_transition THEN CheckPrecondition(p, nst)
             ELSE [repo |-> repo, err |-> "none", violating |-> {}]
    IN  /\ repo' = c.repo
        /\ raised' = c.err
        /\ violating' = c.violating
        /\ notified_next_process' = p

\* ReviewManager.notify(process, state_transition)
notify(p, nst, state_transition) ==
    LET c == IF state_transition THEN CheckPrecondition(p, nst)
             ELSE [repo |-> repo, err |-> "none", violating |-> {}]
    IN  /\ repo' = c.repo
        /\ raised' = c.err
        /\ violating' = c.violating
        /\ notified_next_process' =
              IF c.err = "none" THEN p ELSE notified_next_process

\* Process.__init__: the constructor notifies the review manager, with
\* state_transition = notify_state_transition_process; an exception leaves
\* no Process object
ProcessInit(p, nst) ==
    /\ proc = NoProc
    /\ raised = "none"
    /\ notify(p, nst, nst)
    /\ proc' = IF raised' = "none" THEN [type |-> p, nst |-> nst] ELSE NoProc
    /\ UNCHANGED <<smVars, lastOp, force_mode, review_type,
                   delay_automated_processing, pmVars, ddVars>>

\* REVIEW_MANAGER.notify(process=self), called again by the subclass once
\* the Process object exists (FormatProcess.__init__)
Renotify ==
    /\ proc # NoProc
    /\ raised = "none"
    /\ notify(proc.type, proc.nst, TRUE)
    /\ UNCHANGED <<smVars, lastOp, proc, force_mode, review_type,
                   delay_automated_processing, pmVars, ddVars>>

\* position of a state in the transition list: where it is first named
Pos(s) ==
    LET i == CHOOSE k \in 1..Len(transitions) :
                 /\ s \in {transitions[k].source, transitions[k].dest}
                 /\ \A j \in 1..(k - 1) :
                       s \notin {transitions[j].source, transitions[j].dest}
    IN  2 * i + (IF transitions[i].source = s THEN 0 ELSE 1)

\* the datasets of up to MaxDataset records in different states, listed in
\* the order of the transition list (the checks read the set of states only)
Datasets ==
    {d \in UNION {[1..k -> RecordState] : k \in 0..MaxDataset} :
        \A i, j \in DOMAIN d : i < j => Pos(d[i]) < Pos(d[j])}

\* delay_automated_processing as stored: the strings "True" / "False", or
\* the boolean True of settings.py ("bool:True"), which is not equal to "True"
DelayValues == {"True", "False", "bool:True"}

RepoScenarios ==
    { CleanRepo,
      [unstaged |-> {"other"}, staged |-> {}],
      [unstaged |-> {"references"}, staged |-> {}],
      [unstaged |-> {}, staged |-> {"pdfs"}] }

\* a dataset in any combination of record states, any of the repository
\* scenarios, any value of delay_automated_processing; force mode and the
\* realtime review type (either skips every check) with the setting on; no process notified yet, or ProcessType.check
\* recorded by an earlier check_repo
InitPreSpec ==
    /\ status \in Datasets
    /\ passed = [r \in DOMAIN status |-> PrecedingStates[status[r]]]
    /\ resets = {}
    /\ raised = "none"
    /\ lastOp = "none"
    /\ proc = NoProc
    /\ \/ /\ force_mode = FALSE
          /\ review_type = "literature_review"
          /\ delay_automated_processing \in DelayValues
       \/ /\ force_mode = TRUE
          /\ review_type = "literature_review"
          /\ delay_automated_processing = "True"
       \/ /\ force_mode = FALSE
          /\ review_type = "realtime"
          /\ delay_automated_processing = "True"
    /\ repo \in RepoScenarios
    /\ notified_next_process \in {"none", "check"}
    /\ violating = {}
    /\ InitPM
    /\ InitDD
    /\ InitX

NextPre ==
    \/ \E p \in ProcessType, nst \in BOOLEAN : ProcessInit(p, nst)
    \/ Renotify

SpecPre == InitPreSpec /\ [][NextPre]_vars

(***************************************************************************)
(* Properties of the precondition check (specification SpecPre)            *)
(***************************************************************************)
\* the process-model check of a process of type p is reached: no force
\* mode, no realtime review, a type whose branch runs the checks, and a
\* repository that passes require_clean_repo_general
ReachesProcessModelCheck(p) ==
    /\ ~force_mode
    /\ review_type # "realtime"
    /\ RunsChecks(p, TRUE)
    /\ RequireCleanError(RepoAfterStaging(repo), IgnorePattern(p)) = "none"

\* C3 as stated: the check fails whenever some record is in a state that
\* postdates the state the stage expects, so a process that passed the check
\* (with delay_automated_processing "True") finds no record past its source
\* state.
C3_Original ==
    ( /\ proc # NoProc
      /\ proc.nst
      /\ raised = "none"
      /\ delay_automated_processing = "True"
      /\ ReachesProcessModelCheck(proc.type) )
    => \A r \in DOMAIN status :
          StartState(proc.type) \notin PrecedingStates[status[r]]

\* C3: with delay_automated_processing "True", the process-model check of
\* a stage fails with ProcessOrderViolation, listing the offending states,
\* exactly when some record is in a state that precedes the source state of
\* the stage (it has not reached the stage yet); records past the stage do
\* not make it fail.
C3_ProcessOrderViolation ==
    [][\A p \in ProcessingTypes :
          ( /\ delay_automated_processing = "True"
            /\ proc = NoProc
            /\ ReachesProcessModelCheck(p)
            /\ (raised' # "none" \/ proc'.type = p)
            /\ ProcessInit(p, TRUE) )
          => LET behind == get_states_set
                             \cap PrecedingStates[StartState(p)]
             IN  IF behind # {}
                 THEN /\ raised' = "ProcessOrderViolation"
                      /\ violating' = behind
                 ELSE raised' # "ProcessOrderViolation"]_vars

\* the check failed on a dataset with one record behind the stage and
\* another one not behind it
C3_Witness ==
    /\ raised = "ProcessOrderViolation"
    /\ violating # {}
    /\ violating # get_states_set

\* C4: a notification whose precondition check raises leaves every
\* record's state, the Process object and notified_next_process as they
\* were.
C4_AbortKeepsState ==
    [][(raised = "none" /\ raised' # "none")
          => /\ status' = status
             /\ proc' = proc
             /\ notified_next_process' = notified_next_process]_vars

\* a process was refused after check_repo had recorded ProcessType.check
C4_Witness ==
    /\ raised \in {"ProcessOrderViolation", "CleanRepoRequiredError",
                   "UnstagedGitChangesError", "NoRecordsError"}
    /\ proc = NoProc
    /\ notified_next_process = "check"

(***************************************************************************)
(* The ProcessModel object and its queries                                 *)
(***************************************************************************)
\* ProcessModel(state=s)
NewProcessModelForState(s) ==
    /\ pm_state' = s
    /\ raised' = "none"
    /\ UNCHANGED <<smVars, lastOp, preVars, preceding, valid, ddVars>>

\* ProcessModel(process=p): start_states is empty for format, explore and
\* check, and start_states[0] raises IndexError
NewProcessModelForProcess(p) ==
    /\ IF p \in ProcessingTypes
       THEN pm_state' = StartState(p) /\ raised' = "none"
       ELSE pm_state' = "none" /\ raised' = "IndexError"
    /\ UNCHANGED <<smVars, lastOp, preVars, preceding, valid, ddVars>>

\* PROCESS_MODEL.get_preceding_states(state=x)
GetPrecedingStates(x) ==
    /\ pm_state # "none"
    /\ preceding' = [state |-> x, result |-> get_preceding_states(x)]
    /\ raised' = "none"
    /\ UNCHANGED <<smVars, lastOp, preVars, pm_state, valid, ddVars>>

\* PROCESS_MODEL.get_valid_transitions()
GetValidTransitions ==
    /\ pm_state # "none"
    /\ valid' = [state |-> pm_state, result |-> get_valid_transitions(pm_state)]
    /\ raised' = "none"
    /\ UNCHANGED <<smVars, lastOp, preVars, pm_state, preceding, ddVars>>

NextPM ==
    \/ \E s \in RecordState : NewProcessModelForState(s)
    \/ \E p \in ProcessType : NewProcessModelForProcess(p)
    \/ \E x \in RecordState : GetPrecedingStates(x)
    \/ GetValidTransitions

SpecPM == Init /\ [][NextPM]_vars

(***************************************************************************)
(* Properties of ProcessModel's queries (specification SpecPM)             *)
(***************************************************************************)
\* the states of the transition table without an outgoing transition
StatesWithoutSuccessor ==
    RecordState \ {e.source : e \in TransitionSet}

\* C5 as stated: get_preceding_states(rev_synthesized) contains every state
\* of the transition table other than rev_prescreen_excluded, rev_excluded
\* and rev_synthesized.
C5_Original ==
    preceding.state = "rev_synthesized"
    => (RecordState \ TerminalStatesNamed) \subseteq preceding.result

\* C5: get_preceding_states(rev_synthesized) contains every state of the
\* transition table that has an outgoing transition, i.e. every state other
\* than rev_prescreen_excluded, rev_excluded, rev_synthesized and
\* pdf_not_available, and none of these four.
C5_PrecedingOfSynthesized ==
    preceding.state = "rev_synthesized"
    => /\ preceding.result = RecordState \ StatesWithoutSuccessor
       /\ StatesWithoutSuccessor =
             TerminalStatesNamed \cup {"pdf_not_available"}

\* the query was answered for rev_synthesized
C5_Witness ==
    /\ preceding.state = "rev_synthesized"
    /\ Cardinality(preceding.result) = 11

\* C6 as stated: get_preceding_states(md_imported) is the empty set.
C6_Original ==
    preceding.state = "md_imported" => preceding.result = {}

\* C6: get_preceding_states(md_imported) is {md_retrieved}; the result is
\* empty for md_retrieved only.
C6_PrecedingOfImported ==
    /\ preceding.state = "md_imported"
          => preceding.result = {"md_retrieved"}
    /\ (preceding.state # "none" /\ preceding.result = {})
          => preceding.state = "md_retrieved"

\* the query was answered for md_imported
C6_Witness ==
    /\ preceding.state = "md_imported"
    /\ preceding.result # {}

(***************************************************************************)
(* analysis/merge_duplicates.py: similarities and the candidate queue.     *)
(* Similarities are kept as integers, 100000 standing for 1.0.             *)
(***************************************************************************)
min_similarity == 70000
auto_threshold == 95000

NaN == "nan"

\* the bibliography's records are drawn from these entries
EntryA ==
    [author |-> "Appan, Radha and Browne, Glenn J.",
     title |-> "The Impact of Analyst-Induced Misinformation",
     year |-> "2012", journal |-> "MIS Quarterly", booktitle |-> NaN,
     volume |-> "36", number |-> "1", pages |-> <<"85">>]
EntryA2 == [EntryA EXCEPT !.pages = <<"22">>]
EntryB ==
    [EntryA EXCEPT !.title = "The Impact of Misinformation", !.pages = <<>>]
EntryC ==
    [author |-> "Webster, Jane", title |-> "Analyzing the Past",
     year |-> "2002", journal |-> "MIS Quarterly", booktitle |-> NaN,
     volume |-> "26", number |-> "2", pages |-> <<"xiii", "xxiii">>]
Corpus == {EntryA, EntryA2, EntryB, EntryC}

\* the conference version of EntryA, and an entry without journal and
\* booktitle
EntryD ==
    [EntryA EXCEPT !.journal = NaN, !.booktitle = "ICIS 2011 Proceedings",
                   !.volume = NaN, !.number = NaN, !.pages = <<>>]
EntryE == [EntryD EXCEPT !.booktitle = NaN]
ContainerCorpus == {EntryA, EntryD, EntryE}

\* the citation keys, by row
IDList ==
    <<"Appan2012", "Appan2012a", "Webster2002", "Rai2020", "Rai2020a",
      "Rai2020b">>

\* fuzz.ratio / fuzz.partial_ratio of the fuzzywuzzy library, in percent:
\* 100 for equal strings, the listed score for the listed pairs, and a low
\* score for all other pairs
FuzzScores ==
    { <<{"the impact of analystinduced misinformation",
         "the impact of misinformation"}, 60>>,
      <<{"2012", "2002"}, 75>>,
      <<{"mis quarterly", "nan"}, 12>>,
      <<{"icis 2011 proceedings", "nan"}, 8>> }

Ratio(x, y) ==
    IF x = y THEN 100
    ELSE IF \E e \in FuzzScores : e[1] = {x, y}
         THEN (CHOOSE e \in FuzzScores : e[1] = {x, y})[2]
         ELSE 20

\* format_authors_string: lower case, accents removed, first names
\* abbreviated to initials, special characters dropped
format_authors_string(authors) ==
    CASE authors = "Appan, Radha and Browne, Glenn J." -> "appan r browne g j"
      [] authors = "Webster, Jane" -> "webster j"
      [] authors = NaN -> "nan"
      [] OTHER -> authors

\* re.sub(r'[^A-Za-z0-9, ]+', '', str(x).lower())
LowerAlnum(x) ==
    CASE x = "The Impact of Analyst-Induced Misinformation" ->
            "the impact of analystinduced misinformation"
      [] x = "The Impact of Misinformation" -> "the impact of misinformation"
      [] x = "Analyzing the Past" -> "analyzing the past"
      [] x = "MIS Quarterly" -> "mis quarterly"
      [] x = "ICIS 2011 Proceedings" -> "icis 2011 proceedings"
      [] OTHER -> x

\* x.lower()
Lower(x) ==
    CASE x = "The Impact of Analyst-Induced Misinformation" ->
            "the impact of analyst-induced misinformation"
      [] x = "The Impact of Misinformation" -> "the impact of misinformation"
      [] x = "Analyzing the Past" -> "analyzing the past"
      [] OTHER -> x

GenericTitles ==
    {"editorial", "editorial introduction", "editorial notes",
     "editor's comments", "book reviews", "editorial note"}

\* the table built from the entries has a column for every field that some
\* entry has
HasColumn(field) ==
    \E i \in DOMAIN references : references[i][field] # NaN

\* sum(similarities[g] * weights[g])
RECURSIVE WeightedSum(_, _, _)
WeightedSum(similarities, weights, g) ==
    IF g > Len(similarities) THEN 0
    ELSE similarities[g] * weights[g]
         + WeightedSum(similarities, weights, g + 1)

\* get_similarity(df_a, df_b); 'booktitle' in df_a: the table has the column
get_similarity(a, b) ==
    LET author_similarity ==
            Ratio(format_authors_string(a.author),
                  format_authors_string(b.author))
        title_similarity == Ratio(LowerAlnum(a.title), LowerAlnum(b.title))
        year_similarity == Ratio(a.year, b.year)
    IN  IF a.journal # NaN
        THEN LET outlet_similarity ==
                     Ratio(LowerAlnum(a.journal), LowerAlnum(b.journal))
                 \* NaN == NaN is false
                 volume_similarity ==
                     IF a.volume = b.volume /\ a.volume # NaN
                     THEN 100 ELSE 0
                 number_similarity ==
                     IF a.number = b.number /\ a.number # NaN
                     THEN 100 ELSE 0
                 pages_similarity ==
                     IF a.pages = <<>> \/ b.pages = <<>> THEN 100
                     ELSE IF a.pages = b.pages THEN 100
                     ELSE IF a.pages[1] = b.pages[1] THEN 100 ELSE 0
                 weights ==
                     IF Lower(a.title) = Lower(b.title)
                        /\ Lower(a.title) \in GenericTitles
                     THEN <<175, 0, 175, 175, 175, 175, 125>>
                     ELSE <<250, 300, 130, 200, 50, 50, 20>>
             IN  WeightedSum(<<author_similarity, title_similarity,
                               year_similarity, outlet_similarity,
                               volume_similarity, number_similarity,
                               pages_similarity>>, weights, 1)
        ELSE IF HasColumn("booktitle")
             THEN WeightedSum(<<author_similarity, title_similarity,
                                year_similarity,
                                Ratio(LowerAlnum(a.booktitle),
                                      LowerAlnum(b.booktitle))>>,
                              <<150, 750, 50, 50>>, 1)
             ELSE 0

Rows == DOMAIN references
Cells == Rows \X Rows

\* update_entries_considered_non_duplicates: for every search file, all
\* pairs of rows that hold a hash of the file are set to -1
MarkNonDuplicates(array) ==
    [c \in Cells |->
        IF \E f \in DOMAIN bibfiles :
              /\ references[c[1]].hash_id \cap bibfiles[f] # {}
              /\ references[c[2]].hash_id \cap bibfiles[f] # {}
        THEN -1 ELSE array[c]]

\* merge_bib, lines 368-374: the zero array with the non-duplicates marked
StartMergeBib ==
    /\ dpc = "start"
    /\ SimilarityArray' = MarkNonDuplicates([c \in Cells |-> 0])
    /\ dpc' = "marked"
    /\ UNCHANGED <<references, bibfiles, filled, tuples_to_process, amVars>>
    /\ UNCHANGED <<smVars, raised, lastOp, preVars, pmVars, dsVars, idVars,
                   xVars>>

\* calculate_similarities, lines 188-195: base and comparison row both run
\* over range(1, shape[0]); the cells below the diagonal that are not -1
\* receive the similarity
FillCells(array) ==
    [c \in Cells |->
        IF c[1] >= 1 /\ c[2] >= 1 /\ c[1] > c[2] /\ array[c] # -1
        THEN get_similarity(references[c[1]], references[c[2]])
        ELSE array[c]]

FillMatrix ==
    /\ dpc = "marked"
    /\ SimilarityArray' = FillCells(SimilarityArray)
    /\ filled' = SimilarityArray'
    /\ dpc' = "extract"
    /\ UNCHANGED <<references, bibfiles, tuples_to_process, amVars>>
    /\ UNCHANGED <<smVars, raised, lastOp, preVars, pmVars, dsVars, idVars,
                   xVars>>

\* np.amax
Amax(array) ==
    CHOOSE m \in {array[c] : c \in DOMAIN array} :
        \A c \in DOMAIN array : array[c] <= m

\* the cells of set S in row-major order (np.where)
RECURSIVE RowMajor(_)
RowMajor(S) ==
    IF S = {} THEN <<>>
    ELSE LET c == CHOOSE x \in S :
                    \A y \in S : x[1] < y[1] \/ (x[1] = y[1] /\ x[2] <= y[2])
         IN  <<c>> \o RowMajor(S \ {c})

Tuple(cord, sim) ==
    [first |-> references[cord[1]].ID, second |-> references[cord[2]].ID,
     similarity |-> sim, status |-> "not_processed"]

RECURSIVE Tuples(_, _)
Tuples(cords, sim) ==
    IF cords = <<>> THEN <<>>
    ELSE <<Tuple(Head(cords), sim)>> \o Tuples(Tail(cords), sim)

\* a faulty variant of the loop body: the queued cells are not set to 0
ExtractStepKeepCells(array, queue) ==
    LET maximum_similarity == Amax(array)
        cords == RowMajor({c \in DOMAIN array : array[c] = maximum_similarity})
    IN  IF maximum_similarity < min_similarity
        THEN [done |-> TRUE, array |-> array, queue |-> queue]
        ELSE [done |-> FALSE,
              array |-> array,
              queue |-> queue \o Tuples(cords, maximum_similarity)]

\* a faulty variant of the loop body for a given threshold: the queued
\* cells are not set to 0
ExtractStepAtKeepCells(array, queue, threshold) ==
    LET maximum_similarity == Amax(array)
        cords == RowMajor({c \in DOMAIN array : array[c] = maximum_similarity})
    IN  IF maximum_similarity < threshold
        THEN [done |-> TRUE, array |-> array, queue |-> queue]
        ELSE [done |-> FALSE,
              array |-> array,
              queue |-> queue \o Tuples(cords, maximum_similarity)]

\* calculate_similarities, lines 199-211: one iteration of the while loop,
\* for the min_similarity the function was called with
ExtractStepAt(array, queue, threshold) ==
    LET maximum_similarity == Amax(array)
        cords == RowMajor({c \in DOMAIN array : array[c] = maximum_similarity})
    IN  IF maximum_similarity < threshold
        THEN [done |-> TRUE, array |-> array, queue |-> queue]
        ELSE [done |-> FALSE,
              array |-> [c \in DOMAIN array |->
                           IF array[c] = maximum_similarity THEN 0
                           ELSE array[c]],
              queue |-> queue \o Tuples(cords, maximum_similarity)]

\* the iteration as merge_bib has it run: min_similarity = 0.7
ExtractStep(array, queue) == ExtractStepAt(array, queue, min_similarity)

ExtractMax ==
    /\ dpc = "extract"
    /\ LET r == ExtractStep(SimilarityArray, tuples_to_process)
       IN  /\ SimilarityArray' = r.array
           /\ tuples_to_process' = r.queue
           /\ dpc' = IF r.done THEN "queued" ELSE "extract"
    /\ UNCHANGED <<references, bibfiles, filled, amVars>>
    /\ UNCHANGED <<smVars, raised, lastOp, preVars, pmVars, dsVars, idVars,
                   xVars>>

(***************************************************************************)
(* analysis/merge_duplicates.py: auto_merge_entries and the export         *)
(***************************************************************************)
\* the rows of the table whose ID is the citation key
RowsWithID(refs, citation_key) ==
    {i \in DOMAIN refs : refs[i].ID = citation_key}

\* remove_entry: the rows with the citation key are dropped
remove_entry(refs, citation_key) ==
    [i \in DOMAIN refs \ RowsWithID(refs, citation_key) |-> refs[i]]

\* .values[0]: the first row with the citation key
FirstRow(refs, citation_key) ==
    CHOOSE i \in RowsWithID(refs, citation_key) :
        \A j \in RowsWithID(refs, citation_key) : i <= j

\* a faulty variant: the hashes of the second entry are left out
get_combined_hash_id_list_first_only(refs, t) ==
    IF RowsWithID(refs, t.first) = {} \/ RowsWithID(refs, t.second) = {}
    THEN [IndexError |-> TRUE, value |-> {}]
    ELSE [IndexError |-> FALSE,
          value |-> refs[FirstRow(refs, t.first)].hash_id]

\* get_combined_hash_id_list: the set of the hashes of both entries;
\* .values[0] of an empty selection raises IndexError
get_combined_hash_id_list(refs, t) ==
    IF RowsWithID(refs, t.first) = {} \/ RowsWithID(refs, t.second) = {}
    THEN [IndexError |-> TRUE, value |-> {}]
    ELSE [IndexError |-> FALSE,
          value |-> refs[FirstRow(refs, t.first)].hash_id
                       \cup refs[FirstRow(refs, t.second)].hash_id]

\* utils.propagated_citation_key
propagated_citation_key(citation_key) == citation_key \in propagated

\* str.isnumeric() of the last character of the citation key
LastIsNumeric(citation_key) ==
    citation_key \in {"Appan2012", "Webster2002", "Rai2020"}

\* lines 270-277 and 279-287: the combined hashes are written to the entry
\* that is kept and the other entry is removed
MergeInto(refs, t, keep, drop) ==
    LET combined_hash_list == get_combined_hash_id_list(refs, t)
    IN  IF combined_hash_list.IndexError
        THEN [references |-> refs, status |-> t.status, raised |-> "IndexError"]
        ELSE [references |->
                 remove_entry(
                     [i \in DOMAIN refs |->
                         IF refs[i].ID = keep
                         THEN [refs[i] EXCEPT
                                  !.hash_id = combined_hash_list.value]
                         ELSE refs[i]],
                     drop),
              status |-> "merged", raised |-> "none"]

\* the body of the try statement, lines 256-287
MergeTry(refs, t) ==
    LET neither == /\ ~propagated_citation_key(t.first)
                   /\ ~propagated_citation_key(t.second)
        swap == LastIsNumeric(t.first) /\ ~LastIsNumeric(t.first)
        first_propagated ==
            IF neither /\ swap THEN TRUE
            ELSE propagated_citation_key(t.first)
        second_propagated ==
            IF neither /\ ~swap THEN TRUE
            ELSE propagated_citation_key(t.second)
        r1 == IF first_propagated
              THEN MergeInto(refs, t, t.first, t.second)
              ELSE [references |-> refs, status |-> t.status,
                    raised |-> "none"]
    IN  IF r1.raised # "none" THEN r1
        ELSE IF second_propagated
             THEN MergeInto(r1.references, [t EXCEPT !.status = r1.status],
                            t.second, t.first)
             ELSE r1

\* a faulty variant: the IndexError is not caught
TryExceptUncaught(refs, t) == MergeTry(refs, t)

\* lines 255-296: try ... except IndexError
TryExcept(refs, t) ==
    LET r == MergeTry(refs, t)
    IN  IF r.raised = "IndexError"
        THEN [references |-> r.references, status |-> "skipped",
              raised |-> "none"]
        ELSE r

\* a faulty variant of the loop body: the threshold is not tested
auto_merge_entry_any_similarity(refs, t, threshold) ==
    IF propagated_citation_key(t.first) /\ propagated_citation_key(t.second)
    THEN [references |-> refs, status |-> "propagation_problem",
          raised |-> "none"]
    ELSE TryExcept(refs, t)

\* a faulty variant of the loop body: a pair of propagated keys is merged
auto_merge_entry_merge_propagated(refs, t, threshold) ==
    IF t.similarity < threshold
    THEN [references |-> refs, status |-> t.status, raised |-> "none"]
    ELSE TryExcept(refs, t)

\* auto_merge_entries, lines 240-296: the body of the loop for pair t
auto_merge_entry(refs, t, threshold) ==
    IF t.similarity < threshold
    THEN [references |-> refs, status |-> t.status, raised |-> "none"]
    ELSE IF /\ propagated_citation_key(t.first)
            /\ propagated_citation_key(t.second)
         THEN [references |-> refs, status |-> "propagation_problem",
               raised |-> "none"]
         ELSE TryExcept(refs, t)

\* the citation keys of the pairs at or above the threshold: the only keys
\* auto_merge_entries asks utils about
KeysAsked ==
    UNION {{tuples_to_process[k].first, tuples_to_process[k].second} :
              k \in {j \in DOMAIN tuples_to_process :
                        tuples_to_process[j].similarity >= auto_threshold}}

\* merge_bib, lines 404-407: auto_merge_entries is entered; which keys are
\* propagated is fixed by the repository's screen and data files
StartAutoMerge ==
    /\ dpc = "queued"
    /\ propagated' \in SUBSET KeysAsked
    /\ mi' = 1
    /\ dpc' = "merging"
    /\ UNCHANGED <<references, bibfiles, SimilarityArray, filled,
                   tuples_to_process, tuples_for_merging, compared>>
    /\ UNCHANGED <<smVars, raised, lastOp, preVars, pmVars, dsVars, idVars,
                   xVars>>

\* one iteration of the loop of auto_merge_entries
AutoMergeStep ==
    /\ dpc = "merging"
    /\ mi <= Len(tuples_to_process)
    /\ LET r == auto_merge_entry(references, tuples_to_process[mi],
                                 auto_threshold)
       IN  /\ references' = r.references
           /\ tuples_to_process' =
                 [tuples_to_process EXCEPT ![mi].status = r.status]
           /\ raised' = r.raised
           /\ dpc' = IF r.raised = "none" THEN "merging" ELSE "aborted"
    /\ mi' = mi + 1
    /\ UNCHANGED <<bibfiles, SimilarityArray, filled, propagated,
                   tuples_for_merging, compared>>
    /\ UNCHANGED <<smVars, lastOp, preVars, pmVars, dsVars, idVars,
                   xVars>>

\* merge_bib, lines 409-412: the pairs are written to tuples_for_merging.csv
ExportTuples ==
    /\ dpc = "merging"
    /\ mi > Len(tuples_to_process)
    /\ tuples_for_merging' = tuples_to_process
    /\ dpc' = "exported"
    /\ UNCHANGED <<references, bibfiles, SimilarityArray, filled,
                   tuples_to_process, propagated, mi, compared>>
    /\ UNCHANGED <<smVars, raised, lastOp, preVars, pmVars, dsVars, idVars,
                   xVars>>

SearchFiles == {"search1.bib", "search2.bib", "search3.bib"}

FileNo(f) ==
    CASE f = "search1.bib" -> 1 [] f = "search2.bib" -> 2 [] OTHER -> 3

\* the assignments of n rows to search files, one for every way of grouping
\* the rows: a row is in a file used by an earlier row or in the next one
Origins(n) ==
    {o \in [0..(n - 1) -> SearchFiles] :
        \A i \in 0..(n - 1) :
           \/ FileNo(o[i]) = 1
           \/ \E j \in 0..(i - 1) : FileNo(o[j]) >= FileNo(o[i]) - 1}

\* a bibliography of 1..NumRefs records, each loaded from one of the search
\* files; the hash of row i is i
InitDedupe ==
    /\ \E n \in 1..NumRefs :
         \E entries \in [0..(n - 1) -> Corpus], origin \in Origins(n) :
            /\ references =
                 [i \in 0..(n - 1) |->
                    [ID |-> IDList[i + 1], hash_id |-> {i},
                     author |-> entries[i].author,
                     title |-> entries[i].title, year |-> entries[i].year,
                     journal |-> entries[i].journal,
                     booktitle |-> entries[i].booktitle,
                     volume |-> entries[i].volume,
                     number |-> entries[i].number,
                     pages |-> entries[i].pages]]
            /\ bibfiles =
                 [f \in SearchFiles |-> {i \in 0..(n - 1) : origin[i] = f}]
    /\ SimilarityArray = <<>>
    /\ filled = <<>>
    /\ tuples_to_process = <<>>
    /\ dpc = "start"
    /\ propagated = {}
    /\ mi = 0
    /\ tuples_for_merging = <<>>
    /\ compared = [done |-> FALSE, a |-> 0, b |-> 0, ab |-> 0, ba |-> 0]
    /\ status = [r \in Records |-> "md_retrieved"]
    /\ passed = [r \in Records |-> PrecedingStates["md_retrieved"]]
    /\ resets = {}
    /\ raised = "none"
    /\ lastOp = "none"
    /\ InitPre
    /\ InitPM
    /\ InitDS
    /\ InitX

NextDedupe ==
    \/ StartMergeBib
    \/ FillMatrix
    \/ ExtractMax
    \/ StartAutoMerge
    \/ AutoMergeStep
    \/ ExportTuples

SpecDedupe == InitDedupe /\ [][NextDedupe]_vars

(***************************************************************************)
(* Properties of the candidate queue (specification SpecDedupe)            *)
(***************************************************************************)
\* rows i and j hold entries of one search file
ConsideredNonDuplicates(i, j) ==
    \E f \in DOMAIN bibfiles :
       /\ references[i].hash_id \cap bibfiles[f] # {}
       /\ references[j].hash_id \cap bibfiles[f] # {}

\* the number of queue entries for the cell
QueueCount(c) ==
    Cardinality({k \in DOMAIN tuples_to_process :
                    /\ tuples_to_process[k].first = references[c[1]].ID
                    /\ tuples_to_process[k].second = references[c[2]].ID})

\* C9: once the queue is built, every pair of distinct records that is not
\* considered a non-duplicate and whose similarity is at or above the
\* minimum is a candidate, and no pair considered a non-duplicate is.
C9_AllPairsCompared ==
    dpc = "queued" =>
       \A i, j \in Rows :
          i > j =>
             IF ConsideredNonDuplicates(i, j)
             THEN QueueCount(<<i, j>>) = 0
             ELSE get_similarity(references[i], references[j])
                     >= min_similarity
                  => QueueCount(<<i, j>>) = 1

\* C10: the queue is in non-increasing order of similarity; a cell filled
\* with a value at or above the minimum is queued exactly once, with that
\* value, and set to 0, or is still waiting with a value below every queued
\* one; a cell filled with a smaller value is never queued and keeps it.
C10_CandidateQueue ==
    dpc \in {"extract", "queued"} =>
       /\ \A k \in 1..(Len(tuples_to_process) - 1) :
             tuples_to_process[k].similarity
                >= tuples_to_process[k + 1].similarity
       /\ \A c \in Cells :
             IF filled[c] >= min_similarity
             THEN \/ /\ QueueCount(c) = 1
                     /\ SimilarityArray[c] = 0
                     /\ Tuple(c, filled[c]) \in
                           {tuples_to_process[k] :
                               k \in DOMAIN tuples_to_process}
                  \/ /\ dpc = "extract"
                     /\ QueueCount(c) = 0
                     /\ SimilarityArray[c] = filled[c]
                     /\ \A k \in DOMAIN tuples_to_process :
                           tuples_to_process[k].similarity > filled[c]
             ELSE /\ QueueCount(c) = 0
                  /\ SimilarityArray[c] = filled[c]

\* the loop ended with three candidates: one pair, then two tied pairs of
\* lower similarity
C10_Witness ==
    /\ dpc = "queued"
    /\ Len(tuples_to_process) = 3
    /\ tuples_to_process[1].similarity > tuples_to_process[2].similarity
    /\ tuples_to_process[2].similarity = tuples_to_process[3].similarity

(***************************************************************************)
(* Properties of auto_merge_entries (specification SpecDedupe)             *)
(***************************************************************************)
\* the step is the iteration of the loop of auto_merge_entries for pair mi
MergeIteration == dpc = "merging" /\ mi' = mi + 1

\* the step writes tuples_for_merging.csv
Export == dpc = "merging" /\ dpc' = "exported"

\* C11: the iteration for a queued pair whose similarity is below the
\* auto-merge threshold removes no record, changes no hash_id and leaves the
\* pair's status not_processed; the pair is written to
\* tuples_for_merging.csv with that status.
C11_BelowThresholdNotApplied ==
    [][/\ (MergeIteration
           /\ tuples_to_process[mi].similarity < auto_threshold)
          => /\ references' = references
             /\ tuples_to_process' = tuples_to_process
             /\ tuples_to_process[mi].status = "not_processed"
       /\ Export
          => \A k \in DOMAIN tuples_to_process :
                tuples_to_process[k].similarity < auto_threshold
                => /\ k \in DOMAIN tuples_for_merging'
                   /\ tuples_for_merging'[k] =
                         [tuples_to_process[k] EXCEPT
                             !.status = "not_processed"]]_vars

\* the worklist holds a pair below the threshold next to a merged pair
C11_Witness ==
    /\ dpc = "exported"
    /\ \E k, j \in DOMAIN tuples_for_merging :
          /\ tuples_for_merging[k].similarity < auto_threshold
          /\ tuples_for_merging[k].similarity >= min_similarity
          /\ tuples_for_merging[k].status = "not_processed"
          /\ tuples_for_merging[j].status = "merged"
    /\ \E c \in DOMAIN filled : c[1] \notin DOMAIN references

\* both records of pair t are in the table
BothPresent(t) ==
    /\ RowsWithID(references, t.first) # {}
    /\ RowsWithID(references, t.second) # {}

BothPropagated(t) ==
    propagated_citation_key(t.first) /\ propagated_citation_key(t.second)

\* the step removes the record with key drop and nothing else, and gives
\* the record with key keep the hashes of both
MergedInto(keep, drop) ==
    /\ DOMAIN references' = DOMAIN references \ RowsWithID(references, drop)
    /\ Cardinality(DOMAIN references') = Cardinality(DOMAIN references) - 1
    /\ \A i \in DOMAIN references' :
          references'[i] =
             IF references[i].ID = keep
             THEN [references[i] EXCEPT
                      !.hash_id = references[FirstRow(references, keep)].hash_id
                                  \cup references[FirstRow(references,
                                                           drop)].hash_id]
             ELSE references[i]

\* C12: the iteration for a pair at or above the threshold whose records
\* are both still in the table and whose keys are not both propagated
\* removes exactly one of the two records, gives the other the union of the
\* two hash_id sets and records the outcome merged.
C12_AutoMerge ==
    [][(/\ MergeIteration
        /\ tuples_to_process[mi].similarity >= auto_threshold
        /\ BothPresent(tuples_to_process[mi])
        /\ ~BothPropagated(tuples_to_process[mi]))
       => /\ \/ MergedInto(tuples_to_process[mi].first,
                           tuples_to_process[mi].second)
             \/ MergedInto(tuples_to_process[mi].second,
                           tuples_to_process[mi].first)
          /\ tuples_to_process' =
                [tuples_to_process EXCEPT ![mi].status = "merged"]]_vars

\* a pair has been merged and a record carries the hashes of two entries,
\* in a run in which one of the keys is propagated
C12_Witness ==
    /\ dpc = "merging"
    /\ mi > 1
    /\ tuples_to_process[mi - 1].status = "merged"
    /\ propagated # {}
    /\ \E i \in DOMAIN references : Cardinality(references[i].hash_id) = 2

\* the citation key ends in a letter appended to tell it from an equal key
HasAppendedLetter(citation_key) == ~LastIsNumeric(citation_key)

\* C13: when the iteration for a pair merges it and exactly one of the two
\* keys carries an appended letter, the record that stays in the table is
\* the one whose key has no appended letter, whichever of the two it is.
C13_SurvivorWithoutLetter ==
    [][(/\ MergeIteration
        /\ tuples_to_process'[mi].status = "merged"
        /\ tuples_to_process[mi].status = "not_processed"
        /\ HasAppendedLetter(tuples_to_process[mi].first)
              # HasAppendedLetter(tuples_to_process[mi].second))
       => LET t == tuples_to_process[mi]
              survivor == IF HasAppendedLetter(t.first)
                          THEN t.second ELSE t.first
          IN  RowsWithID(references', survivor) # {}]_vars

\* both records of pair t have been removed from the table
BothRemoved(t) ==
    /\ RowsWithID(references, t.first) = {}
    /\ RowsWithID(references, t.second) = {}

\* C14 as stated: the iteration for a pair at or above the threshold whose
\* records have both been removed by earlier merges records the outcome
\* propagation_problem and changes no record.
C14_Original ==
    [][(/\ MergeIteration
        /\ tuples_to_process[mi].similarity >= auto_threshold
        /\ BothRemoved(tuples_to_process[mi]))
       => /\ references' = references
          /\ tuples_to_process' =
                [tuples_to_process EXCEPT
                    ![mi].status = "propagation_problem"]]_vars

\* C14: the iteration for a pair at or above the threshold whose records
\* have both been removed by earlier merges records the outcome skipped and
\* changes no record; the iteration for a pair whose keys are both
\* propagated records the outcome propagation_problem and changes no
\* record.
C14_RemovedPairSkipped ==
    [][/\ (/\ MergeIteration
           /\ tuples_to_process[mi].similarity >= auto_threshold
           /\ BothRemoved(tuples_to_process[mi]))
          => /\ references' = references
             /\ tuples_to_process' =
                   [tuples_to_process EXCEPT ![mi].status = "skipped"]
       /\ (/\ MergeIteration
           /\ tuples_to_process[mi].similarity >= auto_threshold
           /\ BothPropagated(tuples_to_process[mi]))
          => /\ references' = references
             /\ tuples_to_process' =
                   [tuples_to_process EXCEPT
                       ![mi].status = "propagation_problem"]]_vars

\* the last iteration was for a pair whose records had both been removed
\* by the merges of two earlier pairs
C14_Witness ==
    /\ dpc = "merging"
    /\ mi = 4
    /\ tuples_to_process[1].status = "merged"
    /\ tuples_to_process[2].status = "merged"
    /\ tuples_to_process[3].status = "skipped"
    /\ BothRemoved(tuples_to_process[3])

Outcomes == {"merged", "skipped", "propagation_problem"}

\* C15: the iteration for a pair at or above the threshold of which a
\* record is missing (and whose keys are not both propagated) records the
\* outcome skipped, leaves the table as it was and goes on to the next
\* pair; no iteration ends the loop early, and when the pairs are exported
\* every pair at or above the threshold has the outcome merged, skipped or
\* propagation_problem.
C15_SkipNeverAborts ==
    [][/\ (/\ MergeIteration
           /\ tuples_to_process[mi].similarity >= auto_threshold
           /\ ~BothPresent(tuples_to_process[mi])
           /\ ~BothPropagated(tuples_to_process[mi]))
          => /\ references' = references
             /\ tuples_to_process' =
                   [tuples_to_process EXCEPT ![mi].status = "skipped"]
       /\ MergeIteration => raised' = "none" /\ dpc' = "merging"
       /\ Export
          => /\ mi = Len(tuples_to_process) + 1
             /\ \A k \in DOMAIN tuples_for_merging' :
                   tuples_for_merging'[k].similarity >= auto_threshold
                   => tuples_for_merging'[k].status \in Outcomes]_vars

\* a pair was skipped because one of its records had been removed, and the
\* pair after it was merged
C15_Witness ==
    /\ dpc = "exported"
    /\ Len(tuples_for_merging) = 3
    /\ tuples_for_merging[1].status = "merged"
    /\ tuples_for_merging[2].status = "skipped"
    /\ tuples_for_merging[3].status = "merged"

(***************************************************************************)
(* get_similarity on records with and without container fields             *)
(* (specification SpecSim)                                                 *)
(***************************************************************************)
\* number of records of the bibliographies of SpecSim
NumSimRefs == 3

\* get_similarity, lines 145-148: the else branch sets all similarities to 0
\* and prints 'PROBLEM: no journal or booktitle in entry...'
PrintsProblem(a, b) == a.journal = NaN /\ ~HasColumn("booktitle")

\* get_similarity applied to rows i and j in both argument orders
CompareRecords(i, j) ==
    /\ dpc = "start"
    /\ ~compared.done
    /\ compared' =
          [done |-> TRUE, a |-> i, b |-> j,
           ab |-> get_similarity(references[i], references[j]),
           ba |-> get_similarity(references[j], references[i])]
    /\ UNCHANGED <<references, bibfiles, SimilarityArray, filled,
                   tuples_to_process, dpc, propagated, mi,
                   tuples_for_merging>>
    /\ UNCHANGED <<smVars, raised, lastOp, preVars, pmVars, dsVars, idVars,
                   xVars>>

\* a bibliography of NumSimRefs records, with and without journal and
\* booktitle, each loaded from one of the search files; at least one record
\* has a journal, so that the table has the columns journal, volume, number
\* and pages that get_similarity reads
InitSim ==
    /\ \E n \in 3..NumSimRefs :
         \E entries \in [0..(n - 1) -> ContainerCorpus],
            origin \in Origins(n) :
            /\ \E i \in 0..(n - 1) : entries[i].journal # NaN
            /\ references =
                 [i \in 0..(n - 1) |->
                    [ID |-> IDList[i + 1], hash_id |-> {i},
                     author |-> entries[i].author,
                     title |-> entries[i].title, year |-> entries[i].year,
                     journal |-> entries[i].journal,
                     booktitle |-> entries[i].booktitle,
                     volume |-> entries[i].volume,
                     number |-> entries[i].number,
                     pages |-> entries[i].pages]]
            /\ bibfiles =
                 [f \in SearchFiles |-> {i \in 0..(n - 1) : origin[i] = f}]
    /\ SimilarityArray = <<>>
    /\ filled = <<>>
    /\ tuples_to_process = <<>>
    /\ dpc = "start"
    /\ propagated = {}
    /\ mi = 0
    /\ tuples_for_merging = <<>>
    /\ compared = [done |-> FALSE, a |-> 0, b |-> 0, ab |-> 0, ba |-> 0]
    /\ status = [r \in Records |-> "md_retrieved"]
    /\ passed = [r \in Records |-> PrecedingStates["md_retrieved"]]
    /\ resets = {}
    /\ raised = "none"
    /\ lastOp = "none"
    /\ InitPre
    /\ InitPM
    /\ InitDS
    /\ InitX

NextSim ==
    \/ \E i, j \in DOMAIN references : i # j /\ CompareRecords(i, j)
    \/ StartMergeBib
    \/ FillMatrix
    \/ ExtractMax
    \/ StartAutoMerge
    \/ AutoMergeStep
    \/ ExportTuples

SpecSim == InitSim /\ [][NextSim]_vars

\* neither journal nor booktitle is a field of both records
NoSharedContainer(a, b) ==
    /\ a.journal = NaN \/ b.journal = NaN
    /\ a.booktitle = NaN \/ b.booktitle = NaN

\* when the queue is built, every compared pair of records that share
\* neither a journal nor a booktitle has similarity 0, was reported as a
\* problem and is not in the queue
NoContainerNotQueued ==
    dpc = "queued" =>
       \A i, j \in Rows :
          (/\ i > j
           /\ j >= 1
           /\ ~ConsideredNonDuplicates(i, j)
           /\ NoSharedContainer(references[i], references[j]))
          => /\ filled[<<i, j>>] = 0
             /\ PrintsProblem(references[i], references[j])
             /\ QueueCount(<<i, j>>) = 0

\* C16: a compared pair of records that share neither a journal nor a
\* booktitle has similarity 0, is reported as a problem and is not queued,
\* and no iteration of auto_merge_entries merges such a pair.
C16_NoContainerNeverMerged ==
    /\ []NoContainerNotQueued
    /\ [][(/\ MergeIteration
            /\ BothPresent(tuples_to_process[mi])
            /\ NoSharedContainer(
                  references[FirstRow(references,
                                      tuples_to_process[mi].first)],
                  references[FirstRow(references,
                                      tuples_to_process[mi].second)]))
           => references' = references]_vars

\* the weighting branch get_similarity(a, b) takes
Branch(a, b) ==
    IF a.journal # NaN
    THEN IF Lower(a.title) = Lower(b.title)
            /\ Lower(a.title) \in GenericTitles
         THEN "generic_title" ELSE "journal"
    ELSE IF HasColumn("booktitle") THEN "booktitle" ELSE "undefined"

\* C17: get_similarity gives two records the same similarity in both
\* argument orders and takes the same weighting branch for both orders.
C17_Symmetric ==
    (compared.done /\ dpc = "start") =>
       /\ compared.ab = compared.ba
       /\ Branch(references[compared.a], references[compared.b])
             = Branch(references[compared.b], references[compared.a])

(***************************************************************************)
(* Record.merge: the origin list (specification SpecMerge)                 *)
(***************************************************************************)
OriginTags ==
    {"import.bib/id_0001", "import.bib/id_0002", "import.bib/id_0003"}

\* longest origin list of a record
MaxOrigins == 3

Range(seq) == {seq[i] : i \in DOMAIN seq}

\* the origin lists of records: no origin is listed twice
OriginLists ==
    {l \in UNION {[1..n -> OriginTags] : n \in 1..MaxOrigins} :
        \A i, j \in DOMAIN l : i # j => l[i] # l[j]}

\* a faulty variant: the origins of the merging record are appended as they
\* are
merge_origins_concatenated(self, merging) == self \o merging

\* Record.merge, origin part: the origins of the merging record that self
\* does not list are appended to those of self, in their order
RECURSIVE merge_origins(_, _)
merge_origins(self, merging) ==
    IF merging = <<>> THEN self
    ELSE merge_origins(IF Head(merging) \in Range(self) THEN self
                       ELSE Append(self, Head(merging)),
                       Tail(merging))

\* r1.merge(merging_record=r2, default_source=...)
RecordMerge ==
    /\ ~merge_call.done
    /\ merge_call' =
          [merge_call EXCEPT
              !.done = TRUE,
              !.result = merge_origins(merge_call.self, merge_call.merging)]
    /\ UNCHANGED <<records, history, search, ds_op, idVars>>
    /\ UNCHANGED <<references, bibfiles, SimilarityArray, filled,
                   tuples_to_process, dpc, amVars>>
    /\ UNCHANGED <<smVars, raised, lastOp, preVars, pmVars, xVars>>

\* two records with arbitrary origin lists
InitMerge ==
    /\ \E self \in OriginLists, merging \in OriginLists :
          merge_call = [done |-> FALSE, self |-> self, merging |-> merging,
                        result |-> <<>>]
    /\ records = <<>>
    /\ history = <<>>
    /\ search = {}
    /\ ds_op = "none"
    /\ bibfile = <<>>
    /\ record_ids = <<>>
    /\ fpos = 0
    /\ bib_database = <<>>
    /\ references = <<>>
    /\ bibfiles = <<>>
    /\ SimilarityArray = <<>>
    /\ filled = <<>>
    /\ tuples_to_process = <<>>
    /\ dpc = "idle"
    /\ propagated = {}
    /\ mi = 0
    /\ tuples_for_merging = <<>>
    /\ compared = [done |-> FALSE, a |-> 0, b |-> 0, ab |-> 0, ba |-> 0]
    /\ status = [r \in Records |-> "md_retrieved"]
    /\ passed = [r \in Records |-> PrecedingStates["md_retrieved"]]
    /\ resets = {}
    /\ raised = "none"
    /\ lastOp = "none"
    /\ InitPre
    /\ InitPM
    /\ InitX

NextMerge == RecordMerge

SpecMerge == InitMerge /\ [][NextMerge]_vars

\* the position of the first occurrence of origin o in list l
FirstIndex(l, o) ==
    CHOOSE i \in DOMAIN l : l[i] = o /\ \A j \in 1..(i - 1) : l[j] # o

\* C18: after Record.merge the origin list of the surviving record holds
\* every origin of either record exactly once, in the order of their first
\* occurrence in the list of self followed by the list of the merging
\* record.
C18_OriginUnion ==
    merge_call.done =>
       LET r == merge_call.result
           both == merge_call.self \o merge_call.merging
       IN  /\ Range(r) = Range(both)
           /\ \A i, j \in DOMAIN r : i # j => r[i] # r[j]
           /\ \A i, j \in DOMAIN r :
                 i < j => FirstIndex(both, r[i]) < FirstIndex(both, r[j])

\* [x] was merged into [x, y] and the result is [x, y]
C18_Witness ==
    /\ merge_call.done
    /\ merge_call.self = <<"import.bib/id_0001", "import.bib/id_0002">>
    /\ merge_call.merging = <<"import.bib/id_0001">>
    /\ merge_call.result = <<"import.bib/id_0001", "import.bib/id_0002">>

(***************************************************************************)
(* The dataset under load, prep, merge, reset and remove                   *)
(* (specification SpecData).  A record ID n stands for the key id_000n.    *)
(***************************************************************************)
\* number of load commits
MaxLoads == 2

\* the number of the search-file entry of an origin
OriginKey(o) ==
    CASE o = "import.bib/id_0001" -> 1
      [] o = "import.bib/id_0002" -> 2
      [] OTHER -> 3

\* the origins listed by the records of a dataset (imported_record_links)
LinkedOrigins(recs) ==
    UNION {Range(recs[id].colrev_origin) : id \in DOMAIN recs}

\* the ID a new record for origin o gets in dataset recs: the key of the
\* entry, or the first unused ID when a record has the key
NewID(recs, o) ==
    IF OriginKey(o) \notin DOMAIN recs THEN OriginKey(o)
    ELSE CHOOSE n \in 4..(4 + Cardinality(DOMAIN recs)) :
            /\ n \notin DOMAIN recs
            /\ \A m \in 4..(n - 1) : m \in DOMAIN recs

\* load_records for the entries with the origins todo, one after the other
RECURSIVE LoadInto(_, _)
LoadInto(recs, todo) ==
    IF todo = {} THEN recs
    ELSE LET o == CHOOSE x \in todo :
                     \A y \in todo : OriginKey(x) <= OriginKey(y)
             id == NewID(recs, o)
         IN  LoadInto([i \in DOMAIN recs \cup {id} |->
                          IF i = id
                          THEN [colrev_origin |-> <<o>>,
                                colrev_status |-> "md_imported"]
                          ELSE recs[i]],
                      todo \ {o})

\* load: the search files have the new entries; every entry whose origin no
\* record lists becomes a record (load_records skips the linked ones), and
\* the records file is committed
Load(new) ==
    /\ Len(history) < MaxLoads
    /\ (search \cup new) \ LinkedOrigins(records) # {}
    /\ search' = search \cup new
    /\ records' = LoadInto(records, search' \ LinkedOrigins(records))
    /\ history' = Append(history, records')
    /\ ds_op' = "load"
    /\ UNCHANGED <<merge_call, idVars>>
    /\ UNCHANGED <<references, bibfiles, SimilarityArray, filled,
                   tuples_to_process, dpc, amVars>>
    /\ UNCHANGED <<smVars, raised, lastOp, preVars, pmVars, xVars>>

\* prep, prep_man or dedupe moves the record along the transition table
DataTransition(id, t, d) ==
    /\ id \in DOMAIN records
    /\ T(t, records[id].colrev_status, d) \in TransitionSet
    /\ records' = [records EXCEPT ![id].colrev_status = d]
    /\ ds_op' = t
    /\ UNCHANGED <<merge_call, history, search, idVars>>
    /\ UNCHANGED <<references, bibfiles, SimilarityArray, filled,
                   tuples_to_process, dpc, amVars>>
    /\ UNCHANGED <<smVars, raised, lastOp, preVars, pmVars, xVars>>

\* two prepared records are merged: Record.merge on the record that is
\* kept, the other record leaves the dataset
Merge(main, dupe) ==
    /\ main \in DOMAIN records
    /\ dupe \in DOMAIN records
    /\ main # dupe
    /\ records[main].colrev_status = "md_prepared"
    /\ records[dupe].colrev_status = "md_prepared"
    /\ records' =
          [i \in DOMAIN records \ {dupe} |->
              IF i = main
              THEN [records[i] EXCEPT
                       !.colrev_origin =
                          merge_origins(records[main].colrev_origin,
                                        records[dupe].colrev_origin)]
              ELSE records[i]]
    /\ ds_op' = "merge"
    /\ UNCHANGED <<merge_call, history, search, idVars>>
    /\ UNCHANGED <<references, bibfiles, SimilarityArray, filled,
                   tuples_to_process, dpc, amVars>>
    /\ UNCHANGED <<smVars, raised, lastOp, preVars, pmVars, xVars>>

\* __select_record_list_for_reset
ResetStatuses == {"md_prepared", "md_needs_manual_preparation"}

\* the prior record of load commit c with ID p is imported and lists an
\* origin of the record
PriorMatch(record, c, p) ==
    /\ history[c][p].colrev_status = "md_imported"
    /\ Range(history[c][p].colrev_origin) \cap Range(record.colrev_origin)
          # {}

\* __reset for one record: the commits are read from the newest to the
\* oldest and the records of a commit in the order of the file; every
\* matching prior record overwrites the record, so the last one read stays
ResetTo(record) ==
    LET commits == {c \in DOMAIN history :
                       \E p \in DOMAIN history[c] : PriorMatch(record, c, p)}
    IN  IF commits = {}
        THEN [record EXCEPT !.colrev_status = "md_needs_manual_preparation"]
        ELSE LET c == CHOOSE x \in commits : \A y \in commits : x <= y
                 ps == {p \in DOMAIN history[c] : PriorMatch(record, c, p)}
                 p == CHOOSE x \in ps : \A y \in ps : y <= x
             IN  [history[c][p] EXCEPT
                     !.colrev_status = "md_needs_manual_preparation"]

\* reset_records(reset_ids)
ResetDataset(reset_ids) ==
    /\ reset_ids # {}
    /\ records' =
          [i \in DOMAIN records |->
              IF i \in reset_ids /\ records[i].colrev_status \in ResetStatuses
              THEN ResetTo(records[i])
              ELSE records[i]]
    /\ ds_op' = "reset"
    /\ UNCHANGED <<merge_call, history, search, idVars>>
    /\ UNCHANGED <<references, bibfiles, SimilarityArray, filled,
                   tuples_to_process, dpc, amVars>>
    /\ UNCHANGED <<smVars, raised, lastOp, preVars, pmVars, xVars>>

\* remove_records: the record is deleted and the entries of its origins are
\* deleted from the search files
RemoveRecord(id) ==
    /\ id \in DOMAIN records
    /\ records' = [i \in DOMAIN records \ {id} |-> records[i]]
    /\ search' = search \ Range(records[id].colrev_origin)
    /\ ds_op' = "remove"
    /\ UNCHANGED <<merge_call, history, idVars>>
    /\ UNCHANGED <<references, bibfiles, SimilarityArray, filled,
                   tuples_to_process, dpc, amVars>>
    /\ UNCHANGED <<smVars, raised, lastOp, preVars, pmVars, xVars>>

NextData ==
    \/ \E new \in SUBSET OriginTags : Load(new)
    \/ \E id \in DOMAIN records,
          t \in {"prep", "prep_man", "dedupe"}, d \in RecordState :
          DataTransition(id, t, d)
    \/ \E main, dupe \in DOMAIN records : Merge(main, dupe)
    \/ \E reset_ids \in SUBSET DOMAIN records : ResetDataset(reset_ids)
    \/ \E id \in DOMAIN records : RemoveRecord(id)

SpecData == Init /\ [][NextData]_vars

\* the records that list origin o
Owners(o) ==
    {id \in DOMAIN records : o \in Range(records[id].colrev_origin)}

\* no origin is listed twice in a record or by two records
NoOriginShared ==
    /\ \A o \in OriginTags : Cardinality(Owners(o)) <= 1
    /\ \A id \in DOMAIN records :
          \A i, j \in DOMAIN records[id].colrev_origin :
             i # j => records[id].colrev_origin[i]
                         # records[id].colrev_origin[j]

\* C19: every origin that was loaded and not removed is listed by exactly
\* one record of the dataset, once.
C19_OriginInOneRecord ==
    /\ NoOriginShared
    /\ \A o \in search : Cardinality(Owners(o)) = 1

(***************************************************************************)
(* Unique IDs: run_fix_bib_file (colrev/loader/bib.py) and gather          *)
(* (analysis/combine_individual_search_results.py), specification SpecIDs. *)
(* An ID is a key followed by appended letters, given by their numbers.    *)
(***************************************************************************)
\* string.ascii_lowercase
NumLetters == 26

\* largest number of entries of the file that is repaired
MaxEntries == 3

\* number of entries handed to gather
MaxGather == 28

ID(key, letters) == [key |-> key, letters |-> letters]

\* the IDs of the entries of a bib file: Rai2020, rai2020, Rai;2020,
\* Rai_2020 and Rai2020a
FileIDs ==
    {ID("Rai2020", <<>>), ID("rai2020", <<>>), ID("Rai;2020", <<>>),
     ID("Rai_2020", <<>>), ID("Rai2020", <<1>>)}

\* any(x in current_id_str for x in [";"])
HasSemicolon(id) == id.key = "Rai;2020"

\* re.sub(r";", r"_", line)
ReplaceSemicolon(id) ==
    IF id.key = "Rai;2020" THEN [id EXCEPT !.key = "Rai_2020"] ELSE id

\* str.lower()
LowerID(id) ==
    [id EXCEPT !.key = CASE id.key = "Rai2020" -> "rai2020"
                         [] id.key = "Rai;2020" -> "rai;2020"
                         [] id.key = "Rai_2020" -> "rai_2020"
                         [] OTHER -> id.key]

\* the tuple after letters in the order of itertools.product(letters,
\* repeat=1), itertools.product(letters, repeat=2), ...
RECURSIVE NextLetters(_)
NextLetters(l) ==
    IF l = <<>> THEN <<1>>
    ELSE IF l[Len(l)] < NumLetters THEN [l EXCEPT ![Len(l)] = @ + 1]
         ELSE NextLetters(SubSeq(l, 1, Len(l) - 1)) \o <<1>>

\* the while loop of generate_next_unique_id; appended is the tuple last
\* popped from appends
RECURSIVE NextUniqueLoop(_, _, _)
NextUniqueLoop(temp_id, existing_ids, appended) ==
    LET next_unique_id == [temp_id EXCEPT !.letters = @ \o appended]
    IN  IF LowerID(next_unique_id) \in
              {LowerID(existing_ids[i]) : i \in DOMAIN existing_ids}
        THEN NextUniqueLoop(temp_id, existing_ids, NextLetters(appended))
        ELSE next_unique_id

generate_next_unique_id(temp_id, existing_ids) ==
    NextUniqueLoop(temp_id, existing_ids, <<>>)

\* the list l with x inserted after position i
InsertAfter(l, i, x) ==
    SubSeq(l, 1, i) \o <<x>> \o SubSeq(l, i + 1, Len(l))

\* run_fix_bib_file, lines 95-128: the entry line at fpos is read.  A key
\* with a semicolon is rewritten in the file (fix_key); current_id_str
\* keeps the key as read.  A key found in record_ids is replaced by the
\* next unique ID; after fix_key the write position is behind the entry
\* line, so the replacement line is written there, before the next line.
FixEntryLine ==
    /\ fpos >= 1
    /\ fpos <= Len(bibfile)
    /\ LET current_id_str == bibfile[fpos]
           fixed == [bibfile EXCEPT ![fpos] = ReplaceSemicolon(@)]
           next_id == generate_next_unique_id(current_id_str, record_ids)
       IN  IF current_id_str \in Range(record_ids)
           THEN /\ record_ids' = Append(record_ids, next_id)
                /\ IF HasSemicolon(current_id_str)
                   THEN /\ bibfile' = InsertAfter(fixed, fpos, next_id)
                        /\ fpos' = fpos + 2
                   ELSE /\ bibfile' = [bibfile EXCEPT ![fpos] = next_id]
                        /\ fpos' = fpos + 1
           ELSE /\ record_ids' = Append(record_ids, current_id_str)
                /\ bibfile' = fixed
                /\ fpos' = fpos + 1
    /\ UNCHANGED <<bib_database, dsVars, raised>>
    /\ UNCHANGED <<references, bibfiles, SimilarityArray, filled,
                   tuples_to_process, dpc, amVars>>
    /\ UNCHANGED <<smVars, lastOp, preVars, pmVars, xVars>>

\* gather, lines 82-87: letters are taken from iter(ascii_lowercase) while
\* the ID is in use; next() on the exhausted iterator raises StopIteration
RECURSIVE UniqueIDLoop(_, _, _)
UniqueIDLoop(entry_id, ids, n) ==
    LET temp_id == IF n = 0 THEN entry_id
                   ELSE [entry_id EXCEPT !.letters = @ \o <<n>>]
    IN  IF temp_id \notin ids THEN [raised |-> "none", ID |-> temp_id]
        ELSE IF n = NumLetters
             THEN [raised |-> "StopIteration", ID |-> temp_id]
             ELSE UniqueIDLoop(entry_id, ids, n + 1)

\* get_hash_ids
get_hash_ids(database) == {database[i].hash_id : i \in DOMAIN database}

\* gather, lines 73-93, for one entry of the search file: the entry has the
\* ID Rai2020 and either a hash_id that references.bib holds or a new one
GatherEntry(known_hash) ==
    /\ raised = "none"
    /\ Len(bib_database) < MaxGather
    /\ LET entry == [ID |-> ID("Rai2020", <<>>),
                    hash_id |-> IF known_hash THEN 1
                                ELSE Len(bib_database) + 1]
           r == UniqueIDLoop(entry.ID,
                             {bib_database[i].ID : i \in DOMAIN bib_database},
                             0)
       IN  IF Len(bib_database) = 0
           THEN /\ bib_database' = Append(bib_database, entry)
                /\ UNCHANGED raised
           ELSE IF entry.hash_id \in get_hash_ids(bib_database)
                THEN UNCHANGED <<bib_database, raised>>
                ELSE IF r.raised # "none"
                     THEN /\ raised' = r.raised
                          /\ UNCHANGED bib_database
                     ELSE /\ bib_database' =
                                Append(bib_database,
                                       [entry EXCEPT !.ID = r.ID])
                          /\ UNCHANGED raised
    /\ UNCHANGED <<bibfile, record_ids, fpos, dsVars>>
    /\ UNCHANGED <<references, bibfiles, SimilarityArray, filled,
                   tuples_to_process, dpc, amVars>>
    /\ UNCHANGED <<smVars, lastOp, preVars, pmVars, xVars>>

\* a bib file of up to MaxEntries entries to repair, and an empty
\* references.bib
InitIDs ==
    /\ \E n \in 1..MaxEntries : bibfile \in [1..n -> FileIDs]
    /\ record_ids = <<>>
    /\ fpos = 1
    /\ bib_database = <<>>
    /\ merge_call = [done |-> FALSE, self |-> <<>>, merging |-> <<>>,
                     result |-> <<>>]
    /\ records = <<>>
    /\ history = <<>>
    /\ search = {}
    /\ ds_op = "none"
    /\ references = <<>>
    /\ bibfiles = <<>>
    /\ SimilarityArray = <<>>
    /\ filled = <<>>
    /\ tuples_to_process = <<>>
    /\ dpc = "idle"
    /\ propagated = {}
    /\ mi = 0
    /\ tuples_for_merging = <<>>
    /\ compared = [done |-> FALSE, a |-> 0, b |-> 0, ab |-> 0, ba |-> 0]
    /\ status = [r \in Records |-> "md_retrieved"]
    /\ passed = [r \in Records |-> PrecedingStates["md_retrieved"]]
    /\ resets = {}
    /\ raised = "none"
    /\ lastOp = "none"
    /\ InitPre
    /\ InitPM
    /\ InitX

NextIDs ==
    \/ FixEntryLine
    \/ \E known_hash \in BOOLEAN : GatherEntry(known_hash)

SpecIDs == InitIDs /\ [][NextIDs]_vars

\* C20: the entries of references.bib have pairwise different IDs, gather
\* finds an unused ID for every entry it adds, and after run_fix_bib_file
\* has read the whole file its entries have pairwise different IDs.
C20_UniqueIDs ==
    /\ \A i, j \in DOMAIN bib_database :
          i # j => bib_database[i].ID # bib_database[j].ID
    /\ raised # "StopIteration"
    /\ fpos > Len(bibfile)
       => \A i, j \in DOMAIN bibfile : i # j => bibfile[i] # bibfile[j]

(***************************************************************************)
(* Quality checkers (colrev/qm/checkers/mostly_all_caps.py,                *)
(* colrev/qm/checkers/record_not_in_toc.py).  A provenance note is kept as *)
(* the list of its codes, i.e. in the form note.split(",") gives; only the *)
(* notes of the masterdata provenance are followed, not its sources.       *)
(***************************************************************************)
MOSTLY_ALL_CAPS == "mostly-all-caps"
RECORD_NOT_IN_TOC == "record-not-in-toc"
UNKNOWN == "UNKNOWN"

\* the keys MostlyAllCapsFieldChecker.run goes through, in its order
CheckedKeys == <<"author", "title", "journal", "booktitle", "editor">>
KeySet == {CheckedKeys[k] : k \in DOMAIN CheckedKeys}

\* the field values of the model: len is len(value), and upper / chars are
\* the upper-case characters and the length of value.replace(" and ", "")
FieldTable ==
    [v \in {"EDITORIAL", "Editorial", "UNKNOWN", "Rai, Arun", "RAI, ARUN",
            "LEE and KIM", "MIS Quarterly", "MISQ", "PLoS ONE", "SPSS",
            "ICIS 2011 PROCEEDINGS"} |->
        CASE v = "EDITORIAL" -> [len |-> 9, upper |-> 9, chars |-> 9]
          [] v = "Editorial" -> [len |-> 9, upper |-> 1, chars |-> 9]
          [] v = "UNKNOWN" -> [len |-> 7, upper |-> 7, chars |-> 7]
          [] v = "Rai, Arun" -> [len |-> 9, upper |-> 2, chars |-> 9]
          [] v = "RAI, ARUN" -> [len |-> 9, upper |-> 7, chars |-> 9]
          [] v = "LEE and KIM" -> [len |-> 11, upper |-> 6, chars |-> 6]
          [] v = "MIS Quarterly" -> [len |-> 13, upper |-> 4, chars |-> 13]
          [] v = "MISQ" -> [len |-> 4, upper |-> 4, chars |-> 4]
          [] v = "PLoS ONE" -> [len |-> 8, upper |-> 6, chars |-> 8]
          [] v = "SPSS" -> [len |-> 4, upper |-> 4, chars |-> 4]
          [] v = "ICIS 2011 PROCEEDINGS" ->
                [len |-> 21, upper |-> 15, chars |-> 21]]

\* percent_upper_chars(value.replace(" and ", "")) < 0.7
BelowSeventyPercentUpper(v) ==
    10 * FieldTable[v].upper < 7 * FieldTable[v].chars

is_mostly_all_caps(record, key) ==
    LET v == record.data[key]
    IN  CASE /\ record.ENTRYTYPE = "online"
             /\ key = "title"
             /\ FieldTable[record.data["title"]].len < 10 -> FALSE
          [] OTHER ->
             CASE BelowSeventyPercentUpper(v) -> FALSE
               [] OTHER ->
                  CASE /\ key \in {"journal", "booktitle"}
                       /\ FieldTable[v].len < 6 -> FALSE
                    [] OTHER -> v # "PLoS ONE"

NoteCodes(record, key) ==
    {record.notes[key][k] : k \in DOMAIN record.notes[key]}

\* Record.ignored_defect: the note of the field holds IGNORE:<defect>
ignored_defect(record, field, defect) ==
    ("IGNORE:" \o defect) \in NoteCodes(record, field)

\* faulty variant: appends the code without looking for it
add_masterdata_provenance_note_twice(record, key, note) ==
    [record EXCEPT !.notes[key] = Append(@, note)]

\* Record.add_masterdata_provenance_note: the code is appended to the note
\* unless the note already holds it
add_masterdata_provenance_note(record, key, note) ==
    IF note \in NoteCodes(record, key)
    THEN record
    ELSE [record EXCEPT !.notes[key] = Append(@, note)]

\* Record.remove_masterdata_provenance_note: the code is taken out of the
\* note; a note that held nothing else is left empty
remove_masterdata_provenance_note(record, key, note) ==
    [record EXCEPT !.notes[key] = SelectSeq(@, LAMBDA c : c # note)]

\* one round of the loop of MostlyAllCapsFieldChecker.run
MostlyAllCapsKey(record, key) ==
    IF \/ key \notin DOMAIN record.data
       \/ ignored_defect(record, key, MOSTLY_ALL_CAPS)
       \/ record.data[key] = UNKNOWN
    THEN record
    ELSE IF is_mostly_all_caps(record, key)
         THEN add_masterdata_provenance_note(record, key, MOSTLY_ALL_CAPS)
         ELSE remove_masterdata_provenance_note(record, key,
                                                MOSTLY_ALL_CAPS)

RECURSIVE MostlyAllCapsFrom(_, _)
MostlyAllCapsFrom(record, k) ==
    IF k > Len(CheckedKeys)
    THEN record
    ELSE MostlyAllCapsFrom(MostlyAllCapsKey(record, CheckedKeys[k]), k + 1)

\* MostlyAllCapsFieldChecker.run
MostlyAllCapsRun(record) == MostlyAllCapsFrom(record, 1)

\* what LocalIndex.retrieve_from_toc does with the record: it returns a
\* record, raises RecordNotInIndexException, or raises
\* RecordNotInTOCException
IndexAnswers == {"retrieved", "RecordNotInIndexException",
                 "RecordNotInTOCException"}

\* RecordNotInTOCChecker._is_in_toc
is_in_toc(index) == index # "RecordNotInTOCException"

RecordNotInTOCKey(record, key, index) ==
    IF ignored_defect(record, key, RECORD_NOT_IN_TOC)
    THEN record
    ELSE IF ~is_in_toc(index)
         THEN add_masterdata_provenance_note(record, key, RECORD_NOT_IN_TOC)
         ELSE remove_masterdata_provenance_note(record, key,
                                                RECORD_NOT_IN_TOC)

\* RecordNotInTOCChecker.run
RecordNotInTOCRun(record, index) ==
    CASE record.ENTRYTYPE = "article" ->
            RecordNotInTOCKey(record, "journal", index)
      [] record.ENTRYTYPE = "inproceedings" ->
            RecordNotInTOCKey(record, "booktitle", index)
      [] OTHER -> record

\* bounds of the quality-check runs
MaxRuns == 2
MaxChanges == 1

QCFrame ==
    /\ UNCHANGED <<references, bibfiles, SimilarityArray, filled,
                   tuples_to_process, dpc, amVars, dsVars, idVars, pvVars,
                   ppVars, lpVars,
                   rsVars, mpVars>>
    /\ UNCHANGED <<smVars, raised, lastOp, preVars, pmVars>>

RunMostlyAllCaps ==
    /\ qc_last.n < MaxRuns
    /\ qc_record' = MostlyAllCapsRun(qc_record)
    /\ qc_last' = [checker |-> "mostly_all_caps",
                   notes |-> qc_record'.notes, n |-> qc_last.n + 1,
                   twice |-> qc_last.checker = "mostly_all_caps"]
    /\ UNCHANGED <<qc_index, qc_changes>>
    /\ QCFrame

RunRecordNotInTOC ==
    /\ qc_last.n < MaxRuns
    /\ qc_record' = RecordNotInTOCRun(qc_record, qc_index)
    /\ qc_last' = [checker |-> "record_not_in_toc",
                   notes |-> qc_record'.notes, n |-> qc_last.n + 1,
                   twice |-> qc_last.checker = "record_not_in_toc"]
    /\ UNCHANGED <<qc_index, qc_changes>>
    /\ QCFrame

\* the values a field is given in the model
FieldSamples(key) ==
    CASE key \in {"author", "editor"} ->
            {"RAI, ARUN", "LEE and KIM", UNKNOWN}
      [] key = "title" -> {"EDITORIAL", "Editorial", UNKNOWN}
      [] OTHER -> {"MISQ", "PLoS ONE", UNKNOWN}

\* record.data[key] = value, between two runs of the checkers
SetField(key, value) ==
    /\ qc_changes < MaxChanges
    /\ qc_changes' = qc_changes + 1
    /\ qc_record' =
          [qc_record EXCEPT
              !.data = [f \in DOMAIN @ \cup {key} |->
                           IF f = key THEN value ELSE @[f]]]
    /\ qc_last' = [qc_last EXCEPT !.checker = "none", !.twice = FALSE]
    /\ UNCHANGED qc_index
    /\ QCFrame

\* the local index is changed between two runs of the checkers
ChangeIndex(answer) ==
    /\ qc_changes < MaxChanges
    /\ answer # qc_index
    /\ qc_changes' = qc_changes + 1
    /\ qc_index' = answer
    /\ qc_last' = [qc_last EXCEPT !.checker = "none", !.twice = FALSE]
    /\ UNCHANGED qc_record
    /\ QCFrame

\* the records handed to the checkers
QCData ==
    { [ENTRYTYPE |-> "article",
       data |-> [author |-> "Rai, Arun", title |-> "EDITORIAL",
                 journal |-> "MIS Quarterly"]],
      [ENTRYTYPE |-> "article",
       data |-> [author |-> "LEE and KIM", title |-> "Editorial",
                 journal |-> "MISQ"]],
      [ENTRYTYPE |-> "inproceedings",
       data |-> [author |-> "RAI, ARUN", title |-> UNKNOWN,
                 booktitle |-> "ICIS 2011 PROCEEDINGS",
                 editor |-> "Rai, Arun"]],
      [ENTRYTYPE |-> "online", data |-> [title |-> "SPSS"]],
      [ENTRYTYPE |-> "article",
       data |-> [author |-> "Rai, Arun", title |-> "Editorial",
                 journal |-> "PLoS ONE"]] }

\* the notes a field has when the record is loaded
NoteValues ==
    {<<>>, <<MOSTLY_ALL_CAPS>>, <<"IGNORE:" \o MOSTLY_ALL_CAPS>>,
     <<RECORD_NOT_IN_TOC>>, <<"IGNORE:" \o RECORD_NOT_IN_TOC>>,
     <<"missing", MOSTLY_ALL_CAPS>>}

\* a loaded record, the note of one of its fields left by earlier work
InitQCSpec ==
    /\ \E d \in QCData, key \in KeySet, note \in NoteValues :
          qc_record = [ENTRYTYPE |-> d.ENTRYTYPE,
                       colrev_status |-> "md_imported",
                       data |-> d.data,
                       notes |-> [f \in KeySet |->
                                     IF f = key THEN note ELSE <<>>]]
    /\ qc_index \in IndexAnswers
    /\ qc_last = [checker |-> "none", notes |-> <<>>, n |-> 0,
                 twice |-> FALSE]
    /\ qc_changes = 0
    /\ InitPV
    /\ InitPP
    /\ InitLP
    /\ InitRS
    /\ InitMP
    /\ status = [r \in Records |-> "md_retrieved"]
    /\ passed = [r \in Records |-> PrecedingStates["md_retrieved"]]
    /\ resets = {}
    /\ raised = "none"
    /\ lastOp = "none"
    /\ InitPre
    /\ InitPM
    /\ InitDS
    /\ references = <<>>
    /\ bibfiles = <<>>
    /\ SimilarityArray = <<>>
    /\ filled = <<>>
    /\ tuples_to_process = <<>>
    /\ dpc = "idle"
    /\ propagated = {}
    /\ mi = 0
    /\ tuples_for_merging = <<>>
    /\ compared = [done |-> FALSE, a |-> 0, b |-> 0, ab |-> 0, ba |-> 0]

NextQC ==
    \/ RunMostlyAllCaps
    \/ RunRecordNotInTOC
    \/ \E key \in KeySet : \E value \in FieldSamples(key) :
          SetField(key, value)
    \/ \E answer \in IndexAnswers : ChangeIndex(answer)

SpecQC == InitQCSpec /\ [][NextQC]_vars

\* the field has the defect the mostly-all-caps checker looks for
HasMostlyAllCaps(record, key) ==
    /\ record.data[key] # UNKNOWN
    /\ is_mostly_all_caps(record, key)

\* the field RecordNotInTOCChecker covers in a record of this type
TOCKeys(record) ==
    CASE record.ENTRYTYPE = "article" -> {"journal"}
      [] record.ENTRYTYPE = "inproceedings" -> {"booktitle"}
      [] OTHER -> {}

\* C21: right after a checker has run, every field it covers whose defect
\* is not marked as ignored carries the checker's code in its note if and
\* only if the field has the defect now.
C21_NoteReflectsDefect ==
    /\ qc_last.checker = "mostly_all_caps"
       => \A key \in KeySet \cap DOMAIN qc_record.data :
             ~ignored_defect(qc_record, key, MOSTLY_ALL_CAPS)
             => (MOSTLY_ALL_CAPS \in NoteCodes(qc_record, key)
                    <=> HasMostlyAllCaps(qc_record, key))
    /\ qc_last.checker = "record_not_in_toc"
       => \A key \in TOCKeys(qc_record) :
             ~ignored_defect(qc_record, key, RECORD_NOT_IN_TOC)
             => (RECORD_NOT_IN_TOC \in NoteCodes(qc_record, key)
                    <=> ~is_in_toc(qc_index))

\* a checker runs
CheckerRuns == qc_last'.n = qc_last.n + 1

\* C22: a run of a checker changes no content field, not the entry type and
\* not the state of the record, and a run that follows a run of the same
\* checker, with the record and the index unchanged in between, leaves the
\* notes the first run left.
C22_Idempotent ==
    [][CheckerRuns =>
          /\ qc_record'.data = qc_record.data
          /\ qc_record'.ENTRYTYPE = qc_record.ENTRYTYPE
          /\ qc_record'.colrev_status = qc_record.colrev_status
          /\ qc_last'.checker = qc_last.checker
             => qc_record'.notes = qc_last.notes]_vars

\* a checker has run twice in a row and its code is in a note
C22_Witness ==
    /\ qc_last.twice
    /\ \/ /\ qc_last.checker = "mostly_all_caps"
          /\ \E key \in KeySet :
                /\ MOSTLY_ALL_CAPS \in NoteCodes(qc_record, key)
                /\ key \in DOMAIN qc_record.data
                /\ ~ignored_defect(qc_record, key, MOSTLY_ALL_CAPS)
                /\ HasMostlyAllCaps(qc_record, key)
       \/ /\ qc_last.checker = "record_not_in_toc"
          /\ \E key \in TOCKeys(qc_record) :
                /\ RECORD_NOT_IN_TOC \in NoteCodes(qc_record, key)
                /\ ~ignored_defect(qc_record, key, RECORD_NOT_IN_TOC)

(***************************************************************************)
(* Text encoding of a provenance map (colrev/loader/bib.py).  A text is a  *)
(* sequence of tokens: every delimiter character (":", ";", ",", "{", "}", *)
(* a blank, a line break) is a token of its own, the 36 blanks that indent *)
(* a continuation line are one token, and a key, and a stretch of a source *)
(* or of a note without a delimiter, is one token.  Python's string        *)
(* operations are applied to the token sequence.                           *)
(***************************************************************************)
Indent == "                                    "
Blanks == {" ", Indent}
WhiteSpace == {" ", "\n", Indent}

Min2(a, b) == IF a < b THEN a ELSE b
Max2(a, b) == IF a > b THEN a ELSE b

\* s[a:b] with Python's indices (from 0, negative ones from the end)
PyIndex(i, n) == IF i < 0 THEN Max2(n + i, 0) ELSE Min2(i, n)
PySlice(s, a, b) ==
    SubSeq(s, PyIndex(a, Len(s)) + 1, PyIndex(b, Len(s)))

\* s.find(t) and s.rfind(t): an index from 0, or -1
Find(s, t) ==
    IF \E i \in DOMAIN s : s[i] = t
    THEN (CHOOSE i \in DOMAIN s :
             s[i] = t /\ \A j \in DOMAIN s : s[j] = t => i <= j) - 1
    ELSE -1
RFind(s, t) ==
    IF \E i \in DOMAIN s : s[i] = t
    THEN (CHOOSE i \in DOMAIN s :
             s[i] = t /\ \A j \in DOMAIN s : s[j] = t => j <= i) - 1
    ELSE -1

\* s.lstrip(chars), s.rstrip(chars), s.strip(chars)
LStrip(s, chars) ==
    IF \E i \in DOMAIN s : s[i] \notin chars
    THEN SubSeq(s, CHOOSE i \in DOMAIN s :
                      s[i] \notin chars
                      /\ \A j \in DOMAIN s : s[j] \notin chars => i <= j,
                Len(s))
    ELSE <<>>
RStrip(s, chars) ==
    IF \E i \in DOMAIN s : s[i] \notin chars
    THEN SubSeq(s, 1, CHOOSE i \in DOMAIN s :
                         s[i] \notin chars
                         /\ \A j \in DOMAIN s : s[j] \notin chars => j <= i)
    ELSE <<>>
Strip(s, chars) == LStrip(RStrip(s, chars), chars)

\* the places (from 1) where sep starts in s
Matches(s, sep) ==
    {i \in 1..(Len(s) - Len(sep) + 1) : SubSeq(s, i, i + Len(sep) - 1) = sep}

\* s.split(sep)
RECURSIVE Split(_, _)
Split(s, sep) ==
    IF Matches(s, sep) = {}
    THEN <<s>>
    ELSE LET p == CHOOSE i \in Matches(s, sep) :
                     \A j \in Matches(s, sep) : i <= j
         IN  <<SubSeq(s, 1, p - 1)>>
                \o Split(SubSeq(s, p + Len(sep), Len(s)), sep)

\* s.split(sep, 1)
SplitOnce(s, sep) ==
    IF Matches(s, sep) = {}
    THEN <<s>>
    ELSE LET p == CHOOSE i \in Matches(s, sep) :
                     \A j \in Matches(s, sep) : i <= j
         IN  <<SubSeq(s, 1, p - 1), SubSeq(s, p + Len(sep), Len(s))>>

\* s.replace(a, b) for single characters
Replace(s, a, b) == [i \in DOMAIN s |-> IF s[i] = a THEN b ELSE s[i]]

\* dict[key] = value
DictSet(dict, key, value) ==
    [k \in DOMAIN dict \cup {key} |-> IF k = key THEN value ELSE dict[k]]

\* the items of a stringified provenance map, one per line:
\* key:source;note;
RECURSIVE stringify_items(_)
stringify_items(map) ==
    IF map = <<>>
    THEN <<>>
    ELSE LET e == Head(map)
             item == <<e.key, ":">> \o e.source \o <<";">> \o e.note
                        \o <<";">>
         IN  IF Len(map) = 1
             THEN item
             ELSE item \o <<"\n", Indent>> \o stringify_items(Tail(map))

\* the field as it stands in the records file:
\* colrev_masterdata_provenance = {...},
FieldText(map) == <<"{">> \o stringify_items(map) \o <<"}", ",">>

\* the map as a Python dict; a key is the token sequence of its text
RECURSIVE AsDict(_)
AsDict(map) ==
    IF map = <<>>
    THEN <<>>
    ELSE DictSet(AsDict(SubSeq(map, 1, Len(map) - 1)),
                 <<map[Len(map)].key>>,
                 [source |-> map[Len(map)].source,
                  note |-> map[Len(map)].note])

\* the value _parse_k_v hands to _load_field_dict
HeaderValue(text) ==
    RStrip(LStrip(Strip(text, WhiteSpace), {"{"}), {"}", ","})

\* _load_field_dict, masterdata branch, one item of the loop
LoadItem(result, item) ==
    LET cut == RFind(PySlice(item, 0, -1), ";")
        key_source == PySlice(item, 0, cut)
        note == PySlice(item, cut + 1, -1)
        ks == SplitOnce(key_source, <<":">>)
    IN  IF result.raised # "none"
        THEN result
        ELSE IF Find(key_source, ":") = -1
             THEN [result EXCEPT !.raised = "AssertionError"]
             ELSE [result EXCEPT
                      !.dict = DictSet(@, ks[1],
                                       [source |-> ks[2], note |-> note])]

RECURSIVE LoadItems(_, _)
LoadItems(result, items) ==
    IF items = <<>>
    THEN result
    ELSE LoadItems(LoadItem(result, Head(items)), Tail(items))

\* _load_field_dict(value, field = colrev_masterdata_provenance)
load_field_dict(value) ==
    IF value = <<>>
    THEN [raised |-> "none", dict |-> <<>>]
    ELSE IF value[1] = "CURATED"
         THEN [raised |-> "none",
               dict |-> DictSet(<<>>, <<"CURATED">>,
                           [source |->
                               PySlice(value, Find(value, ":") + 1,
                                       RFind(PySlice(value, 0, -1), ";")),
                            note |-> <<>>])]
         ELSE LET pieces == Split(Replace(value, "\n", " ") \o <<" ">>,
                                  <<";", " ">>)
                  kept == SelectSeq(pieces, LAMBDA x : x # <<>>)
                  items == [i \in DOMAIN kept |->
                               LStrip(kept[i], WhiteSpace) \o <<";">>]
              IN  LoadItems([raised |-> "none", dict |-> <<>>], items)

\* load_records_list: the lines of the field are stripped and joined with
\* single blanks, and the braces and commas around the value are stripped
RecordsValue(text) ==
    LET lines == Split(text, <<"\n">>)
        stripped == [i \in DOMAIN lines |-> Strip(lines[i], WhiteSpace)]
        joined[i \in 0..Len(stripped)] ==
            IF i = 0 THEN <<>>
            ELSE IF i = 1 THEN stripped[1]
            ELSE joined[i - 1] \o <<" ">> \o stripped[i]
    IN  Strip(joined[Len(stripped)], {",", "{", "}"} \cup Blanks)

\* parse_provenance, one item of the loop
ParseItem(dict, item) ==
    IF Find(item, ":") = -1
    THEN dict
    ELSE LET ks == SplitOnce(item, <<":">>)
             source_parts == Split(ks[2], <<";">>)
         IN  DictSet(dict, Strip(ks[1], WhiteSpace),
                     [source |-> Strip(source_parts[1], WhiteSpace),
                      note |-> IF Len(source_parts) > 1
                               THEN Strip(source_parts[2], WhiteSpace)
                               ELSE <<>>])

RECURSIVE ParseItems(_, _)
ParseItems(dict, items) ==
    IF items = <<>>
    THEN dict
    ELSE ParseItems(ParseItem(dict, Head(items)), Tail(items))

\* load_records_list.parse_provenance
parse_provenance(value) ==
    LET pieces == Split(value, <<";", " ">>)
        stripped == [i \in DOMAIN pieces |-> Strip(pieces[i], WhiteSpace)]
    IN  ParseItems(<<>>, SelectSeq(stripped, LAMBDA x : x # <<>>))

\* bound of the provenance maps
MaxProvEntries == 2

ProvKeys == {"CURATED", "title", "journal"}

\* the source of an entry: a repository for CURATED, an origin otherwise
ProvSource(key) ==
    IF key = "CURATED"
    THEN <<"https", ":", "//github.com/CoLRev-curations/mis-quarterly">>
    ELSE <<"import.bib/id_0001">>

ProvNotes ==
    {<<>>, <<"mostly-all-caps">>, <<"IGNORE", ":", "missing">>,
     <<"mostly-all-caps", ",", "record-not-in-toc">>}

\* the provenance maps of up to MaxProvEntries entries, keys in the order
\* in which they were inserted
ProvMaps ==
    UNION {
        {m \in [1..n -> [key : ProvKeys, source : {<<>>}, note : ProvNotes]] :
            \A i, j \in 1..n : i # j => m[i].key # m[j].key}
        : n \in 0..MaxProvEntries}

WithSources(m) == [i \in DOMAIN m |-> [m[i] EXCEPT !.source = ProvSource(m[i].key)]]

PVFrame ==
    /\ UNCHANGED <<references, bibfiles, SimilarityArray, filled,
                   tuples_to_process, dpc, amVars, dsVars, idVars, qcVars,
                   ppVars, lpVars,
                   rsVars, mpVars>>
    /\ UNCHANGED <<smVars, raised, lastOp, preVars, pmVars>>

\* the record is written to the records file
Stringify ==
    /\ ~pv_text.done
    /\ pv_text' = [done |-> TRUE, text |-> FieldText(pv_map)]
    /\ UNCHANGED <<pv_map, pv_header, pv_list>>
    /\ PVFrame

\* _read_record_header_items reads the field
ReadHeaderItem ==
    /\ pv_text.done
    /\ ~pv_header.done
    /\ pv_header' = [done |-> TRUE]
                        @@ load_field_dict(HeaderValue(pv_text.text))
    /\ UNCHANGED <<pv_map, pv_text, pv_list>>
    /\ PVFrame

\* load_records_list reads the field
LoadRecordsList ==
    /\ pv_text.done
    /\ ~pv_list.done
    /\ pv_list' = [done |-> TRUE,
                   dict |-> parse_provenance(RecordsValue(pv_text.text))]
    /\ UNCHANGED <<pv_map, pv_text, pv_header>>
    /\ PVFrame

InitProvSpec ==
    /\ \E m \in ProvMaps : pv_map = WithSources(m)
    /\ pv_text = [done |-> FALSE, text |-> <<>>]
    /\ pv_header = [done |-> FALSE, raised |-> "none", dict |-> <<>>]
    /\ pv_list = [done |-> FALSE, dict |-> <<>>]
    /\ InitQC
    /\ InitPP
    /\ InitLP
    /\ InitRS
    /\ InitMP
    /\ status = [r \in Records |-> "md_retrieved"]
    /\ passed = [r \in Records |-> PrecedingStates["md_retrieved"]]
    /\ resets = {}
    /\ raised = "none"
    /\ lastOp = "none"
    /\ InitPre
    /\ InitPM
    /\ InitDS
    /\ references = <<>>
    /\ bibfiles = <<>>
    /\ SimilarityArray = <<>>
    /\ filled = <<>>
    /\ tuples_to_process = <<>>
    /\ dpc = "idle"
    /\ propagated = {}
    /\ mi = 0
    /\ tuples_for_merging = <<>>
    /\ compared = [done |-> FALSE, a |-> 0, b |-> 0, ab |-> 0, ba |-> 0]

NextProv ==
    \/ Stringify
    \/ ReadHeaderItem
    \/ LoadRecordsList

SpecProv == InitProvSpec /\ [][NextProv]_vars

\* C23: the map decoded from the text of a provenance map, by the header
\* reader and by load_records_list, equals the map that was encoded.
C23_RoundTrip ==
    /\ pv_header.done
       => pv_header.raised = "none" /\ pv_header.dict = AsDict(pv_map)
    /\ pv_list.done => pv_list.dict = AsDict(pv_map)

(***************************************************************************)
(* Prep.prepare and the batch of Prep.main (colrev/ops/prep.py).  A record *)
(* is its status and the set of changes endpoints have made to it; a       *)
(* change is the pair of the endpoint and one of the two fields it sets.   *)
(* What an endpoint does with a record is an input, fixed per record and   *)
(* endpoint before the batch starts.  verbose_mode and debug_mode are off. *)
(***************************************************************************)
PrepIDs == {"r1", "r2"}

\* prep_round.prep_package_endpoints, in the order of the settings
PrepEndpoints == <<"colrev.exclude_languages", "colrev.crossref">>
EndpointSet == {PrepEndpoints[k] : k \in DOMAIN PrepEndpoints}

\* r_states_to_prepare / Record.status_to_prepare
StatesToPrepare ==
    {"md_imported", "md_prepared", "md_needs_manual_preparation"}
status_to_prepare(rec) == rec.status \in StatesToPrepare

\* what endpoint.prepare does with the record it is handed: it returns the
\* record changed, changed and prepared, or prescreen-excluded; or it
\* raises a timeout before or after it has set the first of its fields, or
\* raises ServiceNotAvailableException
EndpointOutcomes ==
    {"changed", "prepared", "excluded", "TimeoutError",
     "TimeoutError_midway", "ServiceNotAvailableException"}
Timeouts == {"TimeoutError", "TimeoutError_midway"}

ChangesOf(e) == {<<e, "first">>, <<e, "second">>}

\* the record object handed to endpoint.prepare after the call: the
\* endpoint works on the object itself
EndpointEffect(rec, e, outcome) ==
    CASE outcome = "changed" ->
            [rec EXCEPT !.fields = @ \cup ChangesOf(e)]
      [] outcome = "prepared" ->
            [rec EXCEPT !.fields = @ \cup ChangesOf(e),
                        !.status = "md_prepared"]
      [] outcome = "excluded" ->
            [rec EXCEPT !.fields = @ \cup ChangesOf(e),
                        !.status = "rev_prescreen_excluded"]
      [] outcome = "TimeoutError_midway" ->
            [rec EXCEPT !.fields = @ \cup {<<e, "first">>}]
      [] OTHER -> rec

\* Record.preparation_save_condition, preparation_break_condition
preparation_save_condition(rec) ==
    rec.status \in {"md_prepared", "rev_prescreen_excluded"}
preparation_break_condition(rec) == rec.status = "rev_prescreen_excluded"

\* Record.update_by_record: the data are replaced by a copy of the other's
update_by_record(rec, update_record) == update_record

\* Record.update_masterdata_provenance: a record that is not prepared is
\* set to md_needs_manual_preparation
update_masterdata_provenance(rec) ==
    IF rec.status \in {"md_prepared", "rev_prescreen_excluded"}
    THEN rec
    ELSE [rec EXCEPT !.status = "md_needs_manual_preparation"]

\* faulty variant: a timeout is raised to the caller
HandleTimeout_raise(w, e) ==
    [w EXCEPT !.pc = "raised", !.error = "TimeoutError"]

\* the handler of TimeoutError and ReadTimeout: statistics and a log line
HandleTimeout(w, e) ==
    [w EXCEPT !.k = @ + 1, !.logged = @ \cup {<<e, "timed out">>}]

\* the handler of ServiceNotAvailableException
HandleNotAvailable(w, e, force) ==
    IF force
    THEN [w EXCEPT !.k = @ + 1,
                   !.logged = @ \cup {<<e, "ServiceNotAvailableException">>}]
    ELSE [w EXCEPT !.pc = "raised",
                   !.error = "ServiceNotAvailableException"]

\* the try block after endpoint.prepare has returned
AfterReturn(w, e, always) ==
    LET p == w.preparation_record
        r1 == IF e \in always THEN update_by_record(w.record, p)
              ELSE w.record
        r2 == IF preparation_save_condition(p)
              THEN update_masterdata_provenance(update_by_record(r1, p))
              ELSE r1
    IN  IF preparation_break_condition(p)
        THEN [w EXCEPT !.record = update_by_record(r2, p),
                       !.k = Len(PrepEndpoints) + 1]
        ELSE [w EXCEPT !.record = r2, !.k = @ + 1]

\* one round of the loop over the endpoints
EndpointRound(w, e, outcome, force, always) ==
    LET called == [w EXCEPT !.preparation_record =
                               EndpointEffect(@, e, outcome)]
    IN  CASE outcome \in Timeouts -> HandleTimeout(called, e)
          [] outcome = "ServiceNotAvailableException" ->
                HandleNotAvailable(called, e, force)
          [] OTHER -> AfterReturn(called, e, always)

\* the end of prepare: the last round replaces the record by the working
\* copy if it still is to be prepared
LastRound(w, last) ==
    IF last /\ status_to_prepare(w.record)
    THEN [w EXCEPT !.record =
                      update_masterdata_provenance(
                          update_by_record(@, w.preparation_record))]
    ELSE w

\* faulty variant: the progress counter goes into the returned data
get_data_with_progress(w, counter) ==
    [w.record EXCEPT !.fields = @ \cup {<<"progress", counter>>}]

\* record.get_data()
get_data(w, counter) == w.record

\* an item of the round: a record as loaded, not yet prepared
PrepItem(id) == [ID |-> id, status |-> "md_imported", fields |-> {}]

NewWorker(rec) ==
    [pc |-> "queued", k |-> 1, record |-> rec, preparation_record |-> rec,
     error |-> "none", logged |-> {}, result |-> <<>>]

\* prepare run on the record alone, from the loop on
RECURSIVE PrepareLoop(_, _, _, _)
PrepareLoop(w, outcomes, force, always) ==
    IF w.pc = "raised" \/ w.k > Len(PrepEndpoints)
    THEN w
    ELSE PrepareLoop(EndpointRound(w, PrepEndpoints[w.k],
                                   outcomes[PrepEndpoints[w.k]], force,
                                   always),
                     outcomes, force, always)

\* what prepare gives for the record when it is prepared alone
PrepareAlone(rec, outcomes, force, always, last) ==
    IF ~status_to_prepare(rec)
    THEN [error |-> "none", data |-> rec]
    ELSE LET w == PrepareLoop(NewWorker(rec), outcomes, force, always)
         IN  IF w.pc = "raised"
             THEN [error |-> w.error, data |-> <<>>]
             ELSE [error |-> "none",
                   data |-> get_data(LastRound(w, last), 1)]

PrepFrame ==
    /\ UNCHANGED <<references, bibfiles, SimilarityArray, filled,
                   tuples_to_process, dpc, amVars, dsVars, idVars, qcVars,
                   pvVars, lpVars,
                   rsVars, mpVars>>
    /\ UNCHANGED <<smVars, raised, lastOp, preVars, pmVars>>

\* prepare is entered for the item: the status test and the working copy
PrepareStart(id) ==
    /\ prep_workers[id].pc = "queued"
    /\ prep_workers' =
          [prep_workers EXCEPT ![id] =
              IF ~status_to_prepare(@.record)
              THEN [@ EXCEPT !.pc = "returned",
                             !.result = get_data(@, PREP_COUNTER)]
              ELSE [@ EXCEPT !.pc = "endpoints"]]
    /\ UNCHANGED <<prep_round, PREP_COUNTER, prep_stats, prep_main>>
    /\ PrepFrame

\* one endpoint is called for the item, and its result or exception handled
PrepareEndpoint(id) ==
    LET w == prep_workers[id]
        e == PrepEndpoints[w.k]
        outcome == prep_round.outcomes[id][e]
        raises == outcome = "ServiceNotAvailableException" /\ ~force_mode
    IN  /\ w.pc = "endpoints"
        /\ w.k <= Len(PrepEndpoints)
        /\ prep_workers' =
              [prep_workers EXCEPT ![id] =
                  EndpointRound(w, e, outcome, force_mode,
                                prep_round.always_apply)]
        /\ prep_stats' = IF raises THEN prep_stats
                         ELSE [prep_stats EXCEPT ![e] = @ + 1]
        /\ UNCHANGED <<prep_round, PREP_COUNTER, prep_main>>
        /\ PrepFrame

\* with PREP_COUNTER.get_lock(): PREP_COUNTER.value += 1
PrepareCount(id) ==
    /\ prep_workers[id].pc = "endpoints"
    /\ prep_workers[id].k > Len(PrepEndpoints)
    /\ PREP_COUNTER' = PREP_COUNTER + 1
    /\ prep_workers' = [prep_workers EXCEPT ![id].pc = "counted"]
    /\ UNCHANGED <<prep_round, prep_stats, prep_main>>
    /\ PrepFrame

\* the progress line, the last round, and the return of the data
PrepareReturn(id) ==
    /\ prep_workers[id].pc = "counted"
    /\ prep_workers' =
          [prep_workers EXCEPT ![id] =
              LET w == LastRound(@, prep_round.last_round)
              IN  [w EXCEPT !.pc = "returned",
                            !.result = get_data(w, PREP_COUNTER)]]
    /\ UNCHANGED <<prep_round, PREP_COUNTER, prep_stats, prep_main>>
    /\ PrepFrame

\* pool.map has the result of every item: it raises the exception of an
\* item that raised one, otherwise main saves the prepared records
MainCollect ==
    /\ prep_main.pc = "map"
    /\ \A id \in PrepIDs : prep_workers[id].pc \in {"returned", "raised"}
    /\ prep_main' =
          IF \E id \in PrepIDs : prep_workers[id].pc = "raised"
          THEN [pc |-> "raised", saved |-> <<>>]
          ELSE [pc |-> "saved",
                saved |-> [id \in PrepIDs |-> prep_workers[id].result]]
    /\ UNCHANGED <<prep_round, prep_workers, PREP_COUNTER, prep_stats>>
    /\ PrepFrame

\* the items of a round: records to prepare, and what each endpoint does
\* with each of them
InitPrepSpec ==
    /\ prep_round \in
          [last_round : BOOLEAN,
           always_apply : {{}, {PrepEndpoints[1]}},
           outcomes : [PrepIDs -> [EndpointSet -> EndpointOutcomes]]]
    /\ prep_workers =
          [id \in PrepIDs |-> NewWorker(PrepItem(id))]
    /\ PREP_COUNTER = 0
    /\ prep_stats = [e \in EndpointSet |-> 0]
    /\ prep_main = [pc |-> "map", saved |-> <<>>]
    /\ force_mode \in BOOLEAN
    /\ proc = NoProc
    /\ review_type = "literature_review"
    /\ delay_automated_processing = "False"
    /\ repo = CleanRepo
    /\ notified_next_process = "none"
    /\ violating = {}
    /\ InitQC
    /\ InitPV
    /\ InitLP
    /\ InitRS
    /\ InitMP
    /\ status = [r \in Records |-> "md_retrieved"]
    /\ passed = [r \in Records |-> PrecedingStates["md_retrieved"]]
    /\ resets = {}
    /\ raised = "none"
    /\ lastOp = "none"
    /\ InitPM
    /\ InitDD

NextPrep ==
    \/ \E id \in PrepIDs : PrepareStart(id)
    \/ \E id \in PrepIDs : PrepareEndpoint(id)
    \/ \E id \in PrepIDs : PrepareCount(id)
    \/ \E id \in PrepIDs : PrepareReturn(id)
    \/ MainCollect

SpecPrep == InitPrepSpec /\ [][NextPrep]_vars

Finished(id) == prep_workers[id].pc \in {"returned", "raised"}

\* what the prepare call of the item gave: the data returned, or the error
PrepareResult(id) ==
    [error |-> prep_workers[id].error, data |-> prep_workers[id].result]

OwnResult ==
    \A id \in PrepIDs :
       Finished(id)
       => PrepareResult(id) =
             PrepareAlone(PrepItem(id), prep_round.outcomes[id], force_mode,
                          prep_round.always_apply, prep_round.last_round)

\* C24: a step of the prepare call of one item leaves the record and the
\* working copy of every other item as they are, and under every
\* interleaving of the calls each call ends with what prepare gives for
\* its record alone.
C24_OwnRecordOnly ==
    /\ []OwnResult
    /\ [][\A id \in PrepIDs :
             prep_workers'[id] # prep_workers[id]
             => \A other \in PrepIDs \ {id} :
                   prep_workers'[other] = prep_workers[other]]_vars

\* one call has returned changed data while the other is between its
\* endpoints
C24_Witness ==
    /\ prep_workers["r1"].pc = "returned"
    /\ prep_workers["r1"].result.fields # {}
    /\ prep_workers["r2"].pc = "endpoints"
    /\ prep_workers["r2"].k = 2
    /\ prep_workers["r2"].preparation_record.fields # {}
    /\ PREP_COUNTER = 1

\* the endpoint failed for the item and prepare went on
FailedFor(id, e) ==
    \/ prep_round.outcomes[id][e] \in Timeouts
    \/ prep_round.outcomes[id][e] = "ServiceNotAvailableException"
       /\ force_mode

\* C25: the data prepare returns for an item hold no change of an endpoint
\* that failed for the item.
C25_AllOrNothing ==
    \A id \in PrepIDs :
       prep_workers[id].pc = "returned"
       => \A e \in EndpointSet :
             FailedFor(id, e)
             => prep_workers[id].result.fields \cap ChangesOf(e) = {}

\* the call of the item runs an endpoint with this outcome
RunsEndpoint(id, outcome) ==
    /\ prep_workers[id].pc = "endpoints"
    /\ prep_workers[id].k <= Len(PrepEndpoints)
    /\ prep_workers'[id] # prep_workers[id]
    /\ prep_round.outcomes[id][PrepEndpoints[prep_workers[id].k]] = outcome

\* prepare goes on behind the endpoint: to the next one, or to the end
GoesOn(id) ==
    /\ prep_workers'[id].pc = "endpoints"
    /\ prep_workers'[id].k = prep_workers[id].k + 1
    /\ prep_workers'[id].error = "none"
    /\ prep_main' = prep_main

\* C26: a timeout of an endpoint is logged and prepare goes on with the
\* next endpoint, the other items untouched; ServiceNotAvailableException
\* ends prepare with that error unless force mode is on, in which case it
\* is logged and prepare goes on with the next endpoint.
C26_TimeoutAndUnavailable ==
    [][\A id \in PrepIDs :
          /\ \A outcome \in Timeouts :
                RunsEndpoint(id, outcome)
                => /\ GoesOn(id)
                   /\ \A other \in PrepIDs \ {id} :
                         prep_workers'[other] = prep_workers[other]
          /\ RunsEndpoint(id, "ServiceNotAvailableException")
             => IF force_mode
                THEN /\ GoesOn(id)
                     /\ <<PrepEndpoints[prep_workers[id].k],
                          "ServiceNotAvailableException">>
                           \in prep_workers'[id].logged
                ELSE /\ prep_workers'[id].pc = "raised"
                     /\ prep_workers'[id].error
                           = "ServiceNotAvailableException"]_vars

\* the first endpoint timed out for r1, the second one prepared it, and
\* the batch was saved with both records
C26_Witness ==
    /\ prep_main.pc = "saved"
    /\ <<PrepEndpoints[1], "timed out">> \in prep_workers["r1"].logged
    /\ prep_main.saved["r1"].status = "md_prepared"
    /\ ChangesOf(PrepEndpoints[2]) \subseteq prep_main.saved["r1"].fields
    /\ prep_main.saved["r2"].fields # {}

(***************************************************************************)
(* The errors of the process-model check (specification SpecPre)           *)
(***************************************************************************)
\* delay_automated_processing is on: the boolean True of the settings
\* class, or the string "True"
DelayEnabled == delay_automated_processing \in {"True", "bool:True"}

\* the errors check_process_precondition raises
OrderErrors == {"NoRecordsError", "ProcessOrderViolation"}

\* C27: with delayed automated processing on, no force mode and no
\* realtime review, starting a state-changing process (on a repository
\* that passes the clean-repository check) raises NoRecordsError when the
\* dataset is empty and the process is not load, and otherwise raises
\* ProcessOrderViolation exactly when a record is in a state that
\* transitively precedes the source state of the process; with force mode,
\* a realtime review or the setting off, neither error is raised.
C27_OrderErrors ==
    [][\A p \in ProcessingTypes :
          ( /\ proc = NoProc
            /\ RunsChecks(p, TRUE)
            /\ RequireCleanError(RepoAfterStaging(repo), IgnorePattern(p))
                  = "none"
            /\ (raised' # "none" \/ proc'.type = p)
            /\ ProcessInit(p, TRUE) )
          => IF DelayEnabled /\ ~force_mode /\ review_type # "realtime"
             THEN IF get_states_set = {} /\ p # "load"
                  THEN raised' = "NoRecordsError"
                  ELSE raised' = "ProcessOrderViolation"
                       <=> get_states_set
                              \cap get_preceding_states(StartState(p)) # {}
             ELSE raised' \notin OrderErrors]_vars

(***************************************************************************)
(* The while loop of calculate_similarities on its own, for the arrays     *)
(* the filling can leave and for several values of min_similarity          *)
(***************************************************************************)
\* the values the filling writes to a cell: 0, and similarities below, at
\* and above the thresholds
FilledValues == {0, 50000, 90000}

\* min_similarity as handed to calculate_similarities: just above 0, the
\* 0.7 of merge_bib, and a value some cell is equal to
LoopThresholds == {1, min_similarity, 90000}

\* the cells the filling writes: below the diagonal, row and column 0 left
\* out
FilledCells(n) ==
    {c \in (1..(n - 1)) \X (1..(n - 1)) : c[1] > c[2]}

\* the number of cells at or above the threshold
AtOrAbove(array, threshold) ==
    Cardinality({c \in DOMAIN array : array[c] >= threshold})

\* the loop is entered with an array of NumRefs rows: the rows of one
\* search file are marked -1 against each other, the other filled cells
\* hold any of the values, all other cells are 0
InitExtract ==
    /\ references =
          [i \in 0..(NumRefs - 1) |->
              [ID |-> IDList[i + 1], hash_id |-> {i},
               author |-> EntryA.author, title |-> EntryA.title,
               year |-> EntryA.year, journal |-> EntryA.journal,
               booktitle |-> EntryA.booktitle, volume |-> EntryA.volume,
               number |-> EntryA.number, pages |-> EntryA.pages]]
    /\ \E rows \in SUBSET (0..(NumRefs - 1)),
          values \in [FilledCells(NumRefs) -> FilledValues] :
          /\ bibfiles = <<rows>>
          /\ SimilarityArray =
                [c \in (0..(NumRefs - 1)) \X (0..(NumRefs - 1)) |->
                    IF c[1] \in rows /\ c[2] \in rows THEN -1
                    ELSE IF c \in FilledCells(NumRefs) THEN values[c]
                    ELSE 0]
    /\ filled = SimilarityArray
    /\ tuples_to_process = <<>>
    /\ dpc = "extract"
    /\ loop_min_similarity \in LoopThresholds
    /\ propagated = {}
    /\ mi = 0
    /\ tuples_for_merging = <<>>
    /\ compared = [done |-> FALSE, a |-> 0, b |-> 0, ab |-> 0, ba |-> 0]
    /\ status = [r \in Records |-> "md_retrieved"]
    /\ passed = [r \in Records |-> PrecedingStates["md_retrieved"]]
    /\ resets = {}
    /\ raised = "none"
    /\ lastOp = "none"
    /\ InitPre
    /\ InitPM
    /\ InitDS
    /\ InitQC
    /\ InitPV
    /\ InitPP
    /\ InitRS
    /\ InitMP

\* one iteration of the while loop
ExtractLoop ==
    /\ dpc = "extract"
    /\ LET r == ExtractStepAt(SimilarityArray, tuples_to_process,
                              loop_min_similarity)
       IN  /\ SimilarityArray' = r.array
           /\ tuples_to_process' = r.queue
           /\ dpc' = IF r.done THEN "queued" ELSE "extract"
    /\ UNCHANGED <<references, bibfiles, filled, amVars>>
    /\ UNCHANGED <<smVars, raised, lastOp, preVars, pmVars, dsVars, idVars,
                   qcVars, pvVars, ppVars, lpVars,
                   rsVars, mpVars>>

NextExtract == ExtractLoop

\* the loop runs on: a Python while loop is not suspended for ever
SpecExtract ==
    InitExtract /\ [][NextExtract]_vars /\ WF_vars(NextExtract)

\* C28: every iteration of the extract-max loop that does not leave the
\* loop strictly reduces the number of cells at or above min_similarity,
\* the loop is left when no such cell remains, and so the loop terminates
\* for every array (with cells at -1 and ties at the maximum) and every
\* min_similarity above 0.
C28_ExtractTerminates ==
    /\ [][dpc = "extract"
            => IF AtOrAbove(SimilarityArray, loop_min_similarity) = 0
               THEN dpc' = "queued" /\ SimilarityArray' = SimilarityArray
               ELSE /\ dpc' = "extract"
                    /\ AtOrAbove(SimilarityArray', loop_min_similarity)
                          < AtOrAbove(SimilarityArray, loop_min_similarity)
          ]_vars
    /\ <>(dpc = "queued")

\* the loop has ended on an array with -1 cells and with two cells tied at
\* the maximum, queued in one iteration
C28_Witness ==
    /\ dpc = "queued"
    /\ \E c \in DOMAIN filled : filled[c] = -1
    /\ Len(tuples_to_process) >= 3
    /\ tuples_to_process[1].similarity = tuples_to_process[2].similarity
    /\ tuples_to_process[3].similarity < tuples_to_process[1].similarity
    /\ loop_min_similarity > 0

(***************************************************************************)
(* Prep.reset_records and Prep.__reset (colrev/ops/prep.py), with the      *)
(* records carrying their ID field and the history holding the commits of  *)
(* the records file, newest first (specification SpecReset)                *)
(***************************************************************************)
\* number of calls of reset_records
MaxResets == 1

\* the IDs of the records of the dataset, in the order of the records file
ResetIDList == <<"Appan2012", "Rai2020">>
ResetIDs == {ResetIDList[k] : k \in DOMAIN ResetIDList}

\* what reset_ids may name: the records and an ID the dataset does not hold
RequestableIDs == ResetIDs \cup {"Webster2002"}

ResetRec(id, origin, st, title) ==
    [ID |-> id, colrev_origin |-> origin, colrev_status |-> st,
     title |-> title]

\* the records file as committed by earlier operations; the records were
\* loaded under the keys of the search file
PriorFiles ==
    { <<ResetRec("id_0001", <<"import.bib/id_0001">>, "md_imported",
                 "as imported")>>,
      <<ResetRec("id_0001", <<"import.bib/id_0001">>, "md_imported",
                 "as imported"),
        ResetRec("id_0002", <<"import.bib/id_0002">>, "md_imported",
                 "as imported")>>,
      <<ResetRec("id_0001", <<"import.bib/id_0001">>, "md_prepared",
                 "as prepared"),
        ResetRec("id_0002", <<"import.bib/id_0002">>, "md_imported",
                 "as imported")>> }

CommitMessages == {"colrev load", "colrev prep"}
PriorCommits == [msg : CommitMessages, file : PriorFiles]

\* the records of the dataset as written to the records file
FileOf(recs) == [k \in DOMAIN ResetIDList |-> recs[ResetIDList[k]]]

\* __select_record_list_for_reset: the records that are md_prepared or
\* md_needs_manual_preparation
RECURSIVE select_record_list_for_reset(_)
select_record_list_for_reset(record_list) ==
    IF record_list = <<>> THEN <<>>
    ELSE (IF Head(record_list).colrev_status \in ResetStatuses
          THEN <<Head(record_list)>> ELSE <<>>)
         \o select_record_list_for_reset(Tail(record_list))

\* a faulty variant: the record becomes the prior record, ID included
unmerge_with_prior_id(record_to_unmerge, prior_record) == prior_record

\* lines 407-411: the record is cleared and takes every field of the prior
\* record, then its ID is set back to the current one
unmerge(record_to_unmerge, prior_record) ==
    [prior_record EXCEPT !.ID = record_to_unmerge.ID]

\* any(o in prior_record["colrev_origin"] for o in record["colrev_origin"])
SharesOrigin(record, prior_record) ==
    Range(record.colrev_origin) \cap Range(prior_record.colrev_origin) # {}

\* lines 396-412 for one prior record: the first entry of the reset list
\* whose copy shares an origin with it is overwritten (break)
ResetWithPrior(recs, record_reset_list, prior_record) ==
    LET hits == {k \in DOMAIN record_reset_list :
                    SharesOrigin(record_reset_list[k], prior_record)}
    IN  IF prior_record.colrev_status # "md_imported" \/ hits = {}
        THEN recs
        ELSE LET k == CHOOSE x \in hits : \A y \in hits : x <= y
                 id == record_reset_list[k].ID
             IN  [recs EXCEPT ![id] = unmerge(@, prior_record)]

\* the prior records of one commit, in the order of the file
RECURSIVE ResetWithFile(_, _, _)
ResetWithFile(recs, record_reset_list, file) ==
    IF file = <<>> THEN recs
    ELSE ResetWithFile(ResetWithPrior(recs, record_reset_list, Head(file)),
                       record_reset_list, Tail(file))

\* lines 380-395: the commits from the newest to the oldest; a commit whose
\* message does not hold "colrev load" is skipped
RECURSIVE ResetWithCommits(_, _, _)
ResetWithCommits(recs, record_reset_list, revlist) ==
    IF revlist = <<>> THEN recs
    ELSE ResetWithCommits(
             IF Head(revlist).msg # "colrev load" THEN recs
             ELSE ResetWithFile(recs, record_reset_list, Head(revlist).file),
             record_reset_list, Tail(revlist))

\* Prep.__reset: record_reset_list pairs each selected record with a copy
\* of it as it was; after the commits every selected record is set to
\* md_needs_manual_preparation
ResetList(recs, record_list, revlist) ==
    LET record_reset_list == select_record_list_for_reset(record_list)
        selected == {record_reset_list[k].ID : k \in DOMAIN record_reset_list}
        after == ResetWithCommits(recs, record_reset_list, revlist)
    IN  [id \in DOMAIN after |->
            IF id \in selected
            THEN [after[id] EXCEPT
                     !.colrev_status = "md_needs_manual_preparation"]
            ELSE after[id]]

\* lines 434-439: the records named by reset_ids, unknown IDs left out
RECURSIVE records_to_reset(_, _)
records_to_reset(recs, reset_ids) ==
    IF reset_ids = <<>> THEN <<>>
    ELSE (IF Head(reset_ids) \in DOMAIN recs
          THEN <<recs[Head(reset_ids)]>> ELSE <<>>)
         \o records_to_reset(recs, Tail(reset_ids))

\* Prep.reset_records(reset_ids): the reset, save_records_dict and the
\* commit of the records file
ResetRecordsCall(reset_ids) ==
    /\ rs_call.n < MaxResets
    /\ rs_records' =
          ResetList(rs_records, records_to_reset(rs_records, reset_ids),
                    rs_commits)
    /\ rs_commits' =
          <<[msg |-> "colrev prep", file |-> FileOf(rs_records')]>>
             \o rs_commits
    /\ rs_call' = [n |-> rs_call.n + 1, reset_ids |-> reset_ids]
    /\ UNCHANGED <<references, bibfiles, SimilarityArray, filled,
                   tuples_to_process, dpc, amVars, dsVars, idVars, qcVars,
                   pvVars, ppVars, lpVars, mpVars>>
    /\ UNCHANGED <<smVars, raised, lastOp, preVars, pmVars>>

\* the reset_ids of a call: one or two of the requestable IDs
ResetRequests ==
    {<<a>> : a \in RequestableIDs}
       \cup {<<a, b>> : a \in RequestableIDs, b \in RequestableIDs}

\* a dataset of two records: the first one imported, prepared or in need of
\* manual preparation, with an origin of the history or one the history
\* does not know; the second one prepared or processed; up to two earlier
\* commits of the records file
InitReset ==
    /\ \E s1 \in {"md_imported", "md_prepared",
                  "md_needs_manual_preparation"},
          o1 \in {<<"import.bib/id_0001">>,
                  <<"import.bib/id_0001", "import.bib/id_0002">>,
                  <<"import.bib/id_0003">>},
          s2 \in {"md_prepared", "md_processed"},
          o2 \in {<<"import.bib/id_0002">>, <<"import.bib/id_0001">>} :
          rs_records =
             [id \in ResetIDs |->
                 IF id = ResetIDList[1]
                 THEN ResetRec(id, o1, s1, "current")
                 ELSE ResetRec(id, o2, s2, "current")]
    /\ rs_commits \in {<<>>} \cup {<<c>> : c \in PriorCommits}
                        \cup {<<c, d>> : c \in PriorCommits,
                                         d \in PriorCommits}
    /\ rs_call = [n |-> 0, reset_ids |-> <<>>]
    /\ status = [r \in Records |-> "md_retrieved"]
    /\ passed = [r \in Records |-> PrecedingStates["md_retrieved"]]
    /\ resets = {}
    /\ raised = "none"
    /\ lastOp = "none"
    /\ InitPre
    /\ InitPM
    /\ InitDD
    /\ InitQC
    /\ InitPV
    /\ InitPP
    /\ InitLP
    /\ InitMP

NextReset == \E reset_ids \in ResetRequests : ResetRecordsCall(reset_ids)

SpecReset == InitReset /\ [][NextReset]_vars

\* C29: a call of reset_records changes only the requested records that
\* are md_prepared or md_needs_manual_preparation: each of them ends in
\* md_needs_manual_preparation under its current ID, with or without a
\* prior imported version in the history; requested records in another
\* state, unknown IDs and records not requested stay as they are.
C29_ResetFrame ==
    [][rs_call'.n # rs_call.n
          => /\ DOMAIN rs_records' = DOMAIN rs_records
             /\ \A id \in DOMAIN rs_records :
                   IF /\ id \in Range(rs_call'.reset_ids)
                      /\ rs_records[id].colrev_status \in ResetStatuses
                   THEN /\ rs_records'[id].colrev_status
                              = "md_needs_manual_preparation"
                        /\ rs_records'[id].ID = rs_records[id].ID
                   ELSE rs_records'[id] = rs_records[id]]_vars

\* both records were requested: the first one was put back to its imported
\* version, which was loaded under another ID, the processed one was left
\* alone
C29_Witness ==
    /\ rs_call.n = 1
    /\ rs_call.reset_ids = <<"Rai2020", "Appan2012">>
    /\ rs_records["Appan2012"].title = "as imported"
    /\ rs_records["Appan2012"].ID = "Appan2012"
    /\ rs_records["Appan2012"].colrev_status = "md_needs_manual_preparation"
    /\ rs_records["Rai2020"].colrev_status = "md_processed"
    /\ rs_records["Rai2020"].title = "current"

(***************************************************************************)
(* CoLRevCLIPDFManPrep.pdf_prep_man (pdf_prep_man_cli.py): the loop over   *)
(* the items, one item per step (specification SpecManPrep).  A dict is a  *)
(* function: the record collection has the IDs as its keys, a record has   *)
(* its field names as its keys.                                            *)
(***************************************************************************)
ManIDs == {"Appan2012", "Rai2020", "Webster2002"}

\* the answers that end the prompt of __man_pdf_prep_item (the other choices
\* lead back to the prompt)
PrepDecisions == {"Yes", "No (delete)", "Quit"}

ManStatuses == {"pdf_needs_manual_preparation", "pdf_prepared"}

\* records[key]: KeyError when the dict has no such key
HasKey(dict, key) == key \in DOMAIN dict

\* lines 248-252: for a record that is not in pdf_needs_manual_preparation
\* the function returns record_dict
not_to_prepare(recs, record_dict) == record_dict

\* __man_pdf_prep_item for "Yes" and "No (delete)": the record is changed
\* in place
Decide(recs, id, decision) ==
    IF decision = "Yes"
    THEN [recs EXCEPT ![id].colrev_status = "pdf_prepared"]
    ELSE [recs EXCEPT ![id].colrev_status = "pdf_needs_manual_retrieval",
                         ![id].file = "none"]

\* what one pass of the loop body leaves: the value assigned to records,
\* what save_records_dict has written last, the PDFs on disk, and the
\* exception that left the body
ItemResult(recs, saved, files, id, decision) ==
    IF ~HasKey(recs, id)
    THEN [records |-> recs, saved |-> saved, files |-> files,
          raised |-> "KeyError"]
    ELSE IF recs[id].colrev_status # "pdf_needs_manual_preparation"
    THEN [records |-> not_to_prepare(recs, recs[id]),
          saved |-> saved, files |-> files, raised |-> "none"]
    ELSE IF ~files[id]
    THEN [records |-> recs, saved |-> recs, files |-> files,
          raised |-> "none"]
    ELSE IF decision = "Quit"
    THEN [records |-> recs, saved |-> saved, files |-> files,
          raised |-> "QuitPressedException"]
    ELSE LET after == Decide(recs, id, decision)
         IN  [records |-> after, saved |-> after,
              files |-> IF decision = "No (delete)"
                        THEN [files EXCEPT ![id] = FALSE] ELSE files,
              raised |-> "none"]

\* one pass of the loop of pdf_prep_man; QuitPressedException and the end
\* of the items lead to the last save_records_dict and the return, any
\* other exception leaves pdf_prep_man
ManPrepItemStep(decision) ==
    /\ man_pc = "loop"
    /\ man_i < Len(man_items)
    /\ LET r == ItemResult(man_records, man_saved, man_files,
                           man_items[man_i + 1], decision)
           ends == r.raised = "QuitPressedException"
                      \/ (r.raised = "none" /\ man_i + 1 = Len(man_items))
       IN  /\ man_records' = r.records
           /\ man_files' = r.files
           /\ man_i' = man_i + 1
           /\ man_saved' = IF ends THEN r.records ELSE r.saved
           /\ man_pc' = IF ends THEN "done"
                        ELSE IF r.raised = "none" THEN "loop"
                        ELSE r.raised
    /\ UNCHANGED man_items
    /\ UNCHANGED <<references, bibfiles, SimilarityArray, filled,
                   tuples_to_process, dpc, amVars, dsVars, idVars, qcVars,
                   pvVars, ppVars, lpVars, rsVars>>
    /\ UNCHANGED <<smVars, raised, lastOp, preVars, pmVars>>

\* the items in some order: any non-empty list of different IDs
ItemLists ==
    {l \in UNION {[1..n -> ManIDs] : n \in 1..Cardinality(ManIDs)} :
        \A i, j \in DOMAIN l : i # j => l[i] # l[j]}

\* the records as load_records_dict returns them, with or without the PDF
\* on disk, and the items get_data has listed
InitManPrep ==
    /\ \E st \in [ManIDs -> ManStatuses] :
          man_records =
             [id \in ManIDs |->
                 [ID |-> id, colrev_status |-> st[id], file |-> "pdf"]]
    /\ man_saved = man_records
    /\ man_items \in ItemLists
    /\ man_i = 0
    /\ man_pc = "loop"
    /\ man_files \in [ManIDs -> BOOLEAN]
    /\ status = [r \in Records |-> "md_retrieved"]
    /\ passed = [r \in Records |-> PrecedingStates["md_retrieved"]]
    /\ resets = {}
    /\ raised = "none"
    /\ lastOp = "none"
    /\ InitPre
    /\ InitPM
    /\ InitDD
    /\ InitQC
    /\ InitPV
    /\ InitPP
    /\ InitLP
    /\ InitRS

NextManPrep == \E decision \in PrepDecisions : ManPrepItemStep(decision)

SpecManPrep == InitManPrep /\ [][NextManPrep]_vars

\* C30: whatever items the manual PDF preparation goes through, what it
\* saves and what it returns is the record collection keyed by ID with
\* every record loaded at the start, and no item makes it fail.
C30_FullCollection ==
    /\ DOMAIN man_saved = ManIDs
    /\ man_pc = "done" => DOMAIN man_records = ManIDs
    /\ man_pc \in {"loop", "done"}

====
